---- MODULE Spec2Model ----
(***************************************************************************)
(* A model of the uma-db-alert change-detection core: the token normaliser *)
(* and fingerprint (utils/state.py), the per-search state store, the       *)
(* selection step filter_new_or_changed and the run driver                 *)
(* (orchestrator.py).                                                      *)
(*                                                                         *)
(* Text is modelled character by character.  A Python str is a sequence of *)
(* characters; a character is a TLA+ string, either the character itself   *)
(* ("a", "/", " ") or the name of a code point that has no ASCII spelling  *)
(* ("NBSP" = U+00A0, "ZWSP" = U+200B, "BOM" = U+FEFF, "FWLP"/"FWRP" = the  *)
(* full-width parentheses U+FF08/U+FF09, "US" = U+001F, "TAB" = U+0009,    *)
(* "ACUTE" = the combining acute accent U+0301, "EACUTE" = U+00E9).        *)
(***************************************************************************)
EXTENDS Integers, Sequences, FiniteSets, TLC

\* ------------------------------------------------------------------------
\* Characters and strings
\* ------------------------------------------------------------------------

\* The characters of the model with their Unicode code points.
CharTable ==
  << <<"TAB", 9>>, <<"US", 31>>, <<" ", 32>>, <<"!", 33>>, <<"#", 35>>,
     <<"$", 36>>, <<"%", 37>>, <<"&", 38>>, <<"(", 40>>,
     <<")", 41>>, <<"*", 42>>, <<"+", 43>>, <<",", 44>>, <<"-", 45>>,
     <<".", 46>>, <<"/", 47>>, <<"0", 48>>, <<"1", 49>>, <<"2", 50>>,
     <<"3", 51>>, <<"4", 52>>, <<"5", 53>>, <<"6", 54>>, <<"7", 55>>,
     <<"8", 56>>, <<"9", 57>>, <<":", 58>>, <<";", 59>>, <<"<", 60>>,
     <<"=", 61>>, <<">", 62>>, <<"?", 63>>, <<"@", 64>>, <<"A", 65>>,
     <<"B", 66>>, <<"C", 67>>, <<"D", 68>>, <<"E", 69>>, <<"F", 70>>,
     <<"G", 71>>, <<"H", 72>>, <<"I", 73>>, <<"J", 74>>, <<"K", 75>>,
     <<"L", 76>>, <<"M", 77>>, <<"N", 78>>, <<"O", 79>>, <<"P", 80>>,
     <<"Q", 81>>, <<"R", 82>>, <<"S", 83>>, <<"T", 84>>, <<"U", 85>>,
     <<"V", 86>>, <<"W", 87>>, <<"X", 88>>, <<"Y", 89>>, <<"Z", 90>>,
     <<"[", 91>>, <<"]", 93>>, <<"^", 94>>, <<"_", 95>>,
     <<"a", 97>>, <<"b", 98>>, <<"c", 99>>, <<"d", 100>>, <<"e", 101>>,
     <<"f", 102>>, <<"g", 103>>, <<"h", 104>>, <<"i", 105>>, <<"j", 106>>,
     <<"k", 107>>, <<"l", 108>>, <<"m", 109>>, <<"n", 110>>, <<"o", 111>>,
     <<"p", 112>>, <<"q", 113>>, <<"r", 114>>, <<"s", 115>>, <<"t", 116>>,
     <<"u", 117>>, <<"v", 118>>, <<"w", 119>>, <<"x", 120>>, <<"y", 121>>,
     <<"z", 122>>, <<"{", 123>>, <<"|", 124>>, <<"}", 125>>, <<"~", 126>>,
     <<"NBSP", 160>>, <<"EACUTE", 233>>, <<"ACUTE", 769>>, <<"ZWSP", 8203>>,
     <<"BOM", 65279>>, <<"FWLP", 65288>>, <<"FWRP", 65289>> >>

Chars == {CharTable[i][1] : i \in DOMAIN CharTable}

CodePointOf ==
  [c \in Chars |-> (CHOOSE i \in DOMAIN CharTable : CharTable[i][1] = c)]

\* ord(c)
CodePoint(c) == CharTable[CodePointOf[c]][2]

\* chr(n), for the code points of the model
CharOf(n) == CharTable[CHOOSE i \in DOMAIN CharTable : CharTable[i][2] = n][1]

\* str.lower() on one character (ASCII letters are the only cased ones here)
LowerChar(c) ==
  IF CodePoint(c) >= 65 /\ CodePoint(c) <= 90 THEN CharOf(CodePoint(c) + 32)
  ELSE c

MapSeq(s, Op(_)) == [i \in DOMAIN s |-> Op(s[i])]

Lower(s) == MapSeq(s, LowerChar)

\* Python's str < str: lexicographic by code point, a proper prefix first.
RECURSIVE StrLess(_, _)
StrLess(a, b) ==
  IF b = <<>> THEN FALSE
  ELSE IF a = <<>> THEN TRUE
  ELSE IF Head(a) = Head(b) THEN StrLess(Tail(a), Tail(b))
  ELSE CodePoint(Head(a)) < CodePoint(Head(b))

\* str.isspace() / the regex class \s on str, for the characters modelled
IsSpace(c) == c \in {" ", "TAB", "US", "NBSP"}

\* str.strip()
RECURSIVE LStrip(_)
LStrip(s) == IF s # <<>> /\ IsSpace(Head(s)) THEN LStrip(Tail(s)) ELSE s

RECURSIVE RStrip(_)
RStrip(s) ==
  IF s # <<>> /\ IsSpace(s[Len(s)]) THEN RStrip(SubSeq(s, 1, Len(s) - 1))
  ELSE s

Strip(s) == LStrip(RStrip(s))

\* sep.join(parts)
RECURSIVE Join(_, _)
Join(parts, sep) ==
  IF parts = <<>> THEN <<>>
  ELSE IF Len(parts) = 1 THEN parts[1]
  ELSE parts[1] \o sep \o Join(Tail(parts), sep)

\* sorted(xs) for a list of strings (insertion sort; Python's sort is stable
\* and equal strings are indistinguishable)
RECURSIVE InsertSorted(_, _)
InsertSorted(x, xs) ==
  IF xs = <<>> THEN <<x>>
  ELSE IF StrLess(x, Head(xs)) THEN <<x>> \o xs
  ELSE <<Head(xs)>> \o InsertSorted(x, Tail(xs))

RECURSIVE SortedStrs(_)
SortedStrs(xs) ==
  IF xs = <<>> THEN <<>> ELSE InsertSorted(Head(xs), SortedStrs(Tail(xs)))

\* ------------------------------------------------------------------------
\* Python values
\* ------------------------------------------------------------------------

\* A dict is a function from its keys; d.get(k, default)
Get(d, k, default) == IF k \in DOMAIN d THEN d[k] ELSE default

\* d[k] = v on a dict
Put(d, k, v) == [x \in DOMAIN d \cup {k} |-> IF x = k THEN v ELSE d[x]]

\* {k: d[k] for k in keep}
Restrict(d, keep) == [x \in keep |-> d[x]]

EmptyDict == [x \in {} |-> x]

\* the set of elements of a list
Range(s) == {s[i] : i \in DOMAIN s}

\* None, where a str or a timestamp may stand (a timestamp t is <<t>>)
None == <<>>

\* ------------------------------------------------------------------------
\* The inputs of the model
\* ------------------------------------------------------------------------

\* the longest batch of records a call is given
MaxBatch == 2
\* the largest per_run_max an options dict gives
MaxPerRunMax == 3
\* the largest window_limit of a state file found on disk
MaxWindowLimit == 2
\* site['source_site']
SiteId == <<"u", "m", "a">>

\* the search URL of the selection scenarios
Url1 == <<"h", "t", "t", "p", "s", ":", "/", "/", "x", ".", "t", "/", "s">>

\* a search URL whose route is in the fragment, as single-page sites have
UrlFrag == <<"h", "t", "t", "p", "s", ":", "/", "/", "x", ".", "t", "/", "#", "/", "s">>

\* the name of the configured searches
SearchName == <<"a">>

\* trainer ids: two plain ones, one with a leading blank, the empty one
PlainIds == {<<"1">>, <<"2">>}
OddIds == {<<" ", "1">>, <<>>}

\* white lists: WlXY and WlYX hold the same tokens up to order, blanks and
\* an empty token
WlX == << <<"X">> >>
WlXY == << <<"X">>, <<"Y">> >>
WlYX == << <<"Y", " ">>, <<>>, <<"X">> >>
WhiteLists == {WlX, WlXY, WlYX}

\* the other fields make_title_and_body requires of a record (blue_list,
\* pink_list, unique_list, white_count, g1_count, id_url) are present or
\* absent together; id_url stands for them
IdUrl == <<"u">>

\* scraped records; the last kind has no trainer_id key
Records ==
  {[trainer_id |-> id, white_list |-> w, id_url |-> IdUrl] :
     id \in PlainIds, w \in WhiteLists}
  \cup {[trainer_id |-> id, white_list |-> WlX, id_url |-> IdUrl] :
          id \in OddIds}
  \cup {[white_list |-> WlX, id_url |-> IdUrl]}

Batches == UNION {[1..n -> Records] : n \in 0..MaxBatch}

\* options dicts: empty, or giving per_run_max, or asking for no detection
OptsSet ==
  {EmptyDict}
  \cup {[per_run_max |-> k] : k \in 0..MaxPerRunMax}
  \cup {[detect_updates |-> FALSE, per_run_max |-> 1]}

\* ------------------------------------------------------------------------
\* utils/state.py: normalisation and fingerprint
\* ------------------------------------------------------------------------

\* NFKC on one character: the compatibility characters fold to their ASCII
\* counterparts.
NfkcChar(c) ==
  CASE c = "FWLP" -> "("
    [] c = "FWRP" -> ")"
    [] c = "NBSP" -> " "
    [] OTHER -> c

\* NFKC, canonical composition: a base letter and the combining mark that
\* directly follows it become the composed letter.  Of the letters that
\* compose with the acute accent, the model's texts put only "e" before it.
RECURSIVE Compose(_)
Compose(s) ==
  IF Len(s) < 2 THEN s
  ELSE IF s[1] = "e" /\ s[2] = "ACUTE"
    THEN <<"EACUTE">> \o Compose(SubSeq(s, 3, Len(s)))
  ELSE <<Head(s)>> \o Compose(Tail(s))

\* unicodedata.normalize("NFKC", s) on the characters modelled
Nfkc(s) == Compose(MapSeq(s, NfkcChar))

\* s.replace(old, new) for a one-character old; new is a string
RECURSIVE Replace(_, _, _)
Replace(s, old, new) ==
  IF s = <<>> THEN <<>>
  ELSE (IF Head(s) = old THEN new ELSE <<Head(s)>>)
         \o Replace(Tail(s), old, new)

\* re.sub(r"\s+", " ", s): every maximal whitespace run becomes one space
RECURSIVE CollapseWs(_)
CollapseWs(s) ==
  IF s = <<>> THEN <<>>
  ELSE IF IsSpace(Head(s)) THEN <<" ">> \o CollapseWs(LStrip(s))
  ELSE <<Head(s)>> \o CollapseWs(Tail(s))

\* re.sub(r"\s+([marks])", r"\1", s): delete each whitespace run that is
\* directly followed by one of marks
RECURSIVE DropWsBefore(_, _)
DropWsBefore(s, marks) ==
  IF s = <<>> THEN <<>>
  ELSE IF IsSpace(Head(s))
    THEN LET rest == LStrip(s)
             run  == SubSeq(s, 1, Len(s) - Len(rest))
         IN  IF rest # <<>> /\ Head(rest) \in marks
               THEN DropWsBefore(rest, marks)
               ELSE run \o DropWsBefore(rest, marks)
  ELSE <<Head(s)>> \o DropWsBefore(Tail(s), marks)

\* re.sub(r"([marks])\s+", r"\1", s) as it would be if it replaced nothing
DropWsAfter_Kept(s, marks) == s

\* re.sub(r"([marks])\s+", r"\1", s): delete each whitespace run that
\* directly follows one of marks
RECURSIVE DropWsAfter(_, _)
DropWsAfter(s, marks) ==
  IF s = <<>> THEN <<>>
  ELSE IF Head(s) \in marks
    THEN <<Head(s)>> \o DropWsAfter(LStrip(Tail(s)), marks)
  ELSE <<Head(s)>> \o DropWsAfter(Tail(s), marks)

_clean_token(s) ==
  IF s = <<>> THEN <<>>
  ELSE LET s1 == Nfkc(s)
           s2 == Replace(Replace(Replace(s1, "NBSP", <<" ">>),
                                 "ZWSP", <<>>), "BOM", <<>>)
           s3 == Strip(CollapseWs(s2))
           s4 == DropWsBefore(s3, {","})
           s5 == DropWsBefore(s4, {")", "]"})
           s6 == DropWsAfter(s5, {"(", "["})
       IN  s6

\* hashlib.sha1(blob).hexdigest(): SHA-1 is taken to be collision free, so
\* a digest is identified with the byte string it was computed from.
Sha1(blob) == blob

\* whites_fingerprint as it would be without sorted(toks)
whites_fingerprint_Unsorted(white_list) ==
  LET cleaned == MapSeq(white_list, _clean_token)
      toks    == SelectSeq(cleaned, LAMBDA t : t # <<>>)
      blob    == Join(toks, <<"US">>)
  IN  Sha1(blob)

whites_fingerprint_of(white_list) ==
  LET cleaned     == MapSeq(white_list, _clean_token)
      toks        == SelectSeq(cleaned, LAMBDA t : t # <<>>)
      toks_sorted == SortedStrs(toks)
      blob        == Join(toks_sorted, <<"US">>)
  IN  Sha1(blob)

\* whites_fingerprint, computed once for each white list of the model
FingerprintMemo == [w \in WhiteLists |-> whites_fingerprint_of(w)]

whites_fingerprint(white_list) ==
  IF white_list \in WhiteLists THEN FingerprintMemo[white_list]
  ELSE whites_fingerprint_of(white_list)

\* ------------------------------------------------------------------------
\* urllib.parse, as far as _canon_url uses it
\* ------------------------------------------------------------------------

\* s.find(c): the index of the first c in s, 0 when there is none
\* (indices are 1-based here)
RECURSIVE FindFrom(_, _, _)
FindFrom(s, c, i) ==
  IF i > Len(s) THEN 0
  ELSE IF s[i] = c THEN i
  ELSE FindFrom(s, c, i + 1)

Find(s, c) == FindFrom(s, c, 1)

\* the index of the first character of s that is in cs, Len(s) + 1 if none
RECURSIVE FindAnyFrom(_, _, _)
FindAnyFrom(s, cs, i) ==
  IF i > Len(s) THEN Len(s) + 1
  ELSE IF s[i] \in cs THEN i
  ELSE FindAnyFrom(s, cs, i + 1)

\* s.split(c, 1) when c occurs in s: <<before, after>>
Split1(s, c) ==
  <<SubSeq(s, 1, Find(s, c) - 1), SubSeq(s, Find(s, c) + 1, Len(s))>>

\* s.split(c)
RECURSIVE SplitAll(_, _)
SplitAll(s, c) ==
  IF Find(s, c) = 0 THEN <<s>>
  ELSE <<Split1(s, c)[1]>> \o SplitAll(Split1(s, c)[2], c)

IsSchemeChar(c) ==
  \/ CodePoint(c) >= 97 /\ CodePoint(c) <= 122
  \/ CodePoint(c) >= 65 /\ CodePoint(c) <= 90
  \/ CodePoint(c) >= 48 /\ CodePoint(c) <= 57
  \/ c \in {"+", "-", "."}

IsAsciiAlpha(c) ==
  \/ CodePoint(c) >= 97 /\ CodePoint(c) <= 122
  \/ CodePoint(c) >= 65 /\ CodePoint(c) <= 90

\* urlsplit, from the "?": what follows it is the query
SplitQuery(scheme, netloc, u3, fragment) ==
  IF Find(u3, "?") # 0
    THEN [scheme |-> scheme, netloc |-> netloc, path |-> Split1(u3, "?")[1],
          query |-> Split1(u3, "?")[2], fragment |-> fragment]
  ELSE [scheme |-> scheme, netloc |-> netloc, path |-> u3,
        query |-> <<>>, fragment |-> fragment]

\* urlsplit, from the "#": the fragment is split off before the query
SplitFragment(scheme, netloc, u2) ==
  IF Find(u2, "#") # 0
    THEN SplitQuery(scheme, netloc, Split1(u2, "#")[1], Split1(u2, "#")[2])
  ELSE SplitQuery(scheme, netloc, u2, <<>>)

\* urlsplit, from the "//": the netloc runs to the first of "/", "?", "#"
SplitNetloc(scheme, u1) ==
  IF Len(u1) >= 2 /\ u1[1] = "/" /\ u1[2] = "/"
    THEN SplitFragment(scheme,
                       SubSeq(u1, 3, FindAnyFrom(u1, {"/", "?", "#"}, 3) - 1),
                       SubSeq(u1, FindAnyFrom(u1, {"/", "?", "#"}, 3), Len(u1)))
  ELSE SplitFragment(scheme, <<>>, u1)

\* urlsplit, with i the index of the first ":" of u (0 if none): what is
\* before it is the scheme if it is a letter followed by scheme characters
SplitScheme(u, i) ==
  IF /\ i > 1
     /\ IsAsciiAlpha(u[1])
     /\ \A k \in 1..(i - 1) : IsSchemeChar(u[k])
    THEN SplitNetloc(Lower(SubSeq(u, 1, i - 1)), SubSeq(u, i + 1, Len(u)))
  ELSE SplitNetloc(<<>>, u)

urlsplit(u) == SplitScheme(u, Find(u, ":"))

\* the schemes of urllib.parse.uses_netloc that the model's URLs can have
uses_netloc == {<<"h", "t", "t", "p">>, <<"h", "t", "t", "p", "s">>}

urlunsplit(scheme, netloc, path, query, fragment) ==
  LET withNet == \/ netloc # <<>>
                 \/ /\ scheme # <<>>
                    /\ scheme \in uses_netloc
                    /\ ~(Len(path) >= 2 /\ path[1] = "/" /\ path[2] = "/")
      u1 == IF withNet
              THEN <<"/", "/">> \o netloc
                     \o (IF path # <<>> /\ path[1] # "/"
                           THEN <<"/">> \o path ELSE path)
              ELSE path
      u2 == IF scheme # <<>> THEN scheme \o <<":">> \o u1 ELSE u1
      u3 == IF query # <<>> THEN u2 \o <<"?">> \o query ELSE u2
      u4 == IF fragment # <<>> THEN u3 \o <<"#">> \o fragment ELSE u3
  IN  u4

\* The reserved ASCII characters of the model with their percent escapes.
PercentTable ==
  << <<"#", <<"2", "3">> >>, <<"%", <<"2", "5">> >>, <<"&", <<"2", "6">> >>,
     <<"+", <<"2", "B">> >>, <<"/", <<"2", "F">> >>, <<":", <<"3", "A">> >>,
     <<"=", <<"3", "D">> >>, <<"?", <<"3", "F">> >>, <<"|", <<"7", "C">> >> >>

EscapedChars == {PercentTable[i][1] : i \in DOMAIN PercentTable}

EscapeOf(c) ==
  PercentTable[CHOOSE i \in DOMAIN PercentTable : PercentTable[i][1] = c][2]

IsEscape(h) == \E i \in DOMAIN PercentTable : PercentTable[i][2] = h

UnescapeOf(h) ==
  PercentTable[CHOOSE i \in DOMAIN PercentTable : PercentTable[i][2] = h][1]

\* urllib.parse.unquote(s) over PercentTable
RECURSIVE unquote(_)
unquote(s) ==
  IF s = <<>> THEN <<>>
  ELSE IF Head(s) = "%" /\ Len(s) >= 3 /\ IsEscape(SubSeq(s, 2, 3))
    THEN <<UnescapeOf(SubSeq(s, 2, 3))>> \o unquote(SubSeq(s, 4, Len(s)))
  ELSE <<Head(s)>> \o unquote(Tail(s))

\* urllib.parse.quote_plus(s)
RECURSIVE quote_plus(_)
quote_plus(s) ==
  IF s = <<>> THEN <<>>
  ELSE (IF Head(s) = " " THEN <<"+">>
        ELSE IF Head(s) \in EscapedChars THEN <<"%">> \o EscapeOf(Head(s))
        ELSE <<Head(s)>>)
         \o quote_plus(Tail(s))

\* parse_qsl(query, keep_blank_values=True) -> a list of <<name, value>>
RECURSIVE ParsePairs(_)
ParsePairs(fields) ==
  IF fields = <<>> THEN <<>>
  ELSE LET nv    == Head(fields)
           name  == IF Find(nv, "=") = 0 THEN nv ELSE Split1(nv, "=")[1]
           value == IF Find(nv, "=") = 0 THEN <<>> ELSE Split1(nv, "=")[2]
           pair  == <<unquote(Replace(name, "+", <<" ">>)),
                      unquote(Replace(value, "+", <<" ">>))>>
       IN  (IF nv = <<>> THEN <<>> ELSE <<pair>>) \o ParsePairs(Tail(fields))

parse_qsl(query) == ParsePairs(SplitAll(query, "&"))

\* tuple comparison of two <<name, value>> pairs
PairLess(p, q) ==
  \/ StrLess(p[1], q[1])
  \/ p[1] = q[1] /\ StrLess(p[2], q[2])

RECURSIVE InsertPair(_, _)
InsertPair(x, xs) ==
  IF xs = <<>> THEN <<x>>
  ELSE IF PairLess(x, Head(xs)) THEN <<x>> \o xs
  ELSE <<Head(xs)>> \o InsertPair(x, Tail(xs))

\* q.sort()
RECURSIVE SortedPairs(_)
SortedPairs(q) ==
  IF q = <<>> THEN <<>> ELSE InsertPair(Head(q), SortedPairs(Tail(q)))

\* urlencode(q)
urlencode(q) ==
  Join([i \in DOMAIN q |-> quote_plus(q[i][1]) \o <<"=">> \o quote_plus(q[i][2])],
       <<"&">>)

\* ------------------------------------------------------------------------
\* utils/state.py: paths
\* ------------------------------------------------------------------------

\* _canon_url, from the parts p, as it would be without q.sort()
CanonOfParts_Unsorted(p) ==
  urlunsplit(Lower(p.scheme), Lower(p.netloc),
             IF p.path # <<>> /\ p.path[Len(p.path)] = "/" /\ Len(p.path) > 1
               THEN SubSeq(p.path, 1, Len(p.path) - 1)
               ELSE p.path,
             IF p.query # <<>>
               THEN urlencode(parse_qsl(p.query))
               ELSE p.query,
             <<>>)

\* _canon_url, from the parts p of the URL: scheme and netloc lowercased,
\* one trailing "/" of the path dropped, the query's pairs sorted and
\* encoded again, the fragment dropped
CanonOfParts(p) ==
  urlunsplit(Lower(p.scheme), Lower(p.netloc),
             IF p.path # <<>> /\ p.path[Len(p.path)] = "/" /\ Len(p.path) > 1
               THEN SubSeq(p.path, 1, Len(p.path) - 1)
               ELSE p.path,
             IF p.query # <<>>
               THEN urlencode(SortedPairs(parse_qsl(p.query)))
               ELSE p.query,
             <<>>)

\* _canon_url, from the stripped and NFKC-normalised text u
CanonOfText(u) == IF u = <<>> THEN <<>> ELSE CanonOfParts(urlsplit(u))

_canon_url(url) == CanonOfText(Nfkc(Strip(url)))

\* _search_key: sha1(f"{site_id}||{_canon_url(url)}") names the state file
_search_key(site_id, url) == Sha1(site_id \o <<"|", "|">> \o _canon_url(url))

\* state_path: one file per search key in the (fixed) state directory
state_path_of(site_id, url) == _search_key(site_id, url)

\* run(): state_key = f"{url}||search={search.get('name','')}"
StateKeyOf(search) ==
  search.url \o <<"|", "|", "s", "e", "a", "r", "c", "h", "=">> \o Get(search, "name", <<>>)

\* the searches a sites file can configure
Searches == {[url |-> u, name |-> SearchName] : u \in {Url1, UrlFrag}}

\* the (site_id, url) pairs the model hands to the state store
StateKeys ==
  {<<SiteId, Url1>>, <<SiteId, UrlFrag>>}
  \cup {<<SiteId, StateKeyOf(search)>> : search \in Searches}

\* state_path and _canon_url, computed once for each of them
StatePathMemo == [k \in StateKeys |-> state_path_of(k[1], k[2])]
CanonUrlMemo == [k \in StateKeys |-> _canon_url(k[2])]

state_path(site_id, url) ==
  IF <<site_id, url>> \in StateKeys THEN StatePathMemo[<<site_id, url>>]
  ELSE state_path_of(site_id, url)

canon_url(site_id, url) ==
  IF <<site_id, url>> \in StateKeys THEN CanonUrlMemo[<<site_id, url>>]
  ELSE _canon_url(url)

\* ------------------------------------------------------------------------
\* utils/state.py: state I/O
\* ------------------------------------------------------------------------

\* What a path of the state directory holds: nothing, bytes that json.load
\* rejects, or the JSON document of a state.  A file that parses is
\* identified with the dict json.load makes of its text.
NoFile == [kind |-> "absent"]
Corrupt == [kind |-> "corrupt"]
JsonFile(doc) == [kind |-> "json", doc |-> doc]

\* A JSON value is <<"null">>, <<"bool", b>>, <<"number", n>>,
\* <<"string", s>> or <<"object", members>>.

\* json.dump of a state dict as it would be if updated_at were not written
json_dump_NoStamp(st) ==
  <<"object",
    [version      |-> <<"number", st.version>>,
     site_id      |-> <<"string", st.site_id>>,
     search_url   |-> <<"string", st.search_url>>,
     seeded       |-> <<"bool", st.seeded>>,
     digests      |-> <<"object", [k \in DOMAIN st.digests |->
                                     <<"string", st.digests[k]>>]>>,
     window_limit |-> <<"number", st.window_limit>>,
     created_at   |-> <<"string", st.created_at>>,
     updated_at   |-> <<"null">>]>>

\* json.dump(st, f, ensure_ascii=False, indent=2) of a state dict: the text
\* written, as the JSON value it spells.  The keys of digests are str
\* already, so no key is coerced; None is written as null.
json_dump(st) ==
  <<"object",
    [version      |-> <<"number", st.version>>,
     site_id      |-> <<"string", st.site_id>>,
     search_url   |-> <<"string", st.search_url>>,
     seeded       |-> <<"bool", st.seeded>>,
     digests      |-> <<"object", [k \in DOMAIN st.digests |->
                                     <<"string", st.digests[k]>>]>>,
     window_limit |-> <<"number", st.window_limit>>,
     created_at   |-> <<"string", st.created_at>>,
     updated_at   |-> IF st.updated_at = None THEN <<"null">>
                      ELSE <<"string", st.updated_at>>]>>

\* json.load(f) on the text of a state file: null is None, the scalars are
\* themselves, an object is the dict of its loaded members
json_load(text) ==
  [k \in DOMAIN text[2] |->
     IF text[2][k] = <<"null">> THEN None
     ELSE IF text[2][k][1] = "object"
       THEN [x \in DOMAIN text[2][k][2] |-> text[2][k][2][x][2]]
     ELSE text[2][k][2]]

\* p + ".tmp" as it would be if save wrote the state file in place
tmp_path_InPlace(p) == p

\* save: tmp = p + ".tmp"
tmp_path(p) == p \o <<".", "t", "m", "p">>

\* load: the default window_limit of a state created by load
DefaultWindowLimit == 2000

\* load, with p the path of the state file: a fresh state when there is no
\* file, JSONDecodeError when the file does not parse, else its content.
\* raised names the exception that leaves load, "none" when it returns.
load_at(fs, t, site_id, url, p) ==
  IF fs[p].kind = "absent"
    THEN [raised |-> "none",
          state  |-> [version      |-> 1,
                      site_id      |-> site_id,
                      search_url   |-> canon_url(site_id, url),
                      seeded       |-> FALSE,
                      digests      |-> EmptyDict,
                      window_limit |-> DefaultWindowLimit,
                      created_at   |-> <<t>>,
                      updated_at   |-> None]]
  ELSE IF fs[p].kind = "corrupt"
    THEN [raised |-> "JSONDecodeError", state |-> None]
  ELSE [raised |-> "none", state |-> fs[p].doc]

\* load(site_id, url) at time t over the file system fs
load(fs, t, site_id, url) ==
  load_at(fs, t, site_id, url, state_path(site_id, url))

\* save, line 99: st["updated_at"] = the time of the save
Stamped(st, t) == [st EXCEPT !.updated_at = <<t>>]

\* save, lines 102-103: what the temp file holds once json.dump is through
Dumped(st) == JsonFile(json_load(json_dump(st)))

\* save(site_id, url, st) at time t.  writeOk says whether writing the temp
\* file succeeds; when it does not, OSError leaves save before os.replace
\* and the file at p is as it was.
save(fs, t, site_id, url, st, writeOk) ==
  IF writeOk
    THEN [raised |-> "none",
          fs     |-> [fs EXCEPT ![state_path(site_id, url)] =
                        Dumped(Stamped(st, t))]]
    ELSE [raised |-> "OSError", fs |-> fs]

\* sorted(d.keys())
RECURSIVE SetToSortedStrs(_)
SetToSortedStrs(S) ==
  IF S = {} THEN <<>>
  ELSE LET m == CHOOSE x \in S : \A y \in S \ {x} : StrLess(x, y)
       IN  <<m>> \o SetToSortedStrs(S \ {m})

\* xs[-n:] for n >= 0: Python reads -0 as 0, so xs[-0:] is the whole list
LastN(xs, n) ==
  IF n = 0 \/ n >= Len(xs) THEN xs ELSE SubSeq(xs, Len(xs) - n + 1, Len(xs))

\* trim_window as it would be with sorted(d.keys())[:limit]
trim_window_KeepsFirst(st) ==
  LET limit == st.window_limit
      d     == st.digests
  IN  IF Cardinality(DOMAIN d) <= limit THEN st
      ELSE LET keep_ids == SubSeq(SetToSortedStrs(DOMAIN d), 1, limit)
           IN  [st EXCEPT !.digests = Restrict(d, Range(keep_ids))]

trim_window(st) ==
  LET limit == st.window_limit
      d     == st.digests
  IN  IF Cardinality(DOMAIN d) <= limit THEN st
      ELSE LET keep_ids == LastN(SetToSortedStrs(DOMAIN d), limit)
           IN  [st EXCEPT !.digests = Restrict(d, Range(keep_ids))]

\* the loop of seed_from_records over records[i..]
RECURSIVE SeedLoop(_, _, _)
SeedLoop(digs, records, i) ==
  IF i > Len(records) THEN digs
  ELSE LET r   == records[i]
           fid == Strip(Get(r, "trainer_id", <<>>))
       IN  IF fid = <<>> THEN SeedLoop(digs, records, i + 1)
           ELSE SeedLoop(Put(digs, fid,
                             whites_fingerprint(Get(r, "white_list", <<>>))),
                         records, i + 1)

\* seed_from_records as it would be without the early return
seed_from_records_Reseeds(state, records) ==
  [state EXCEPT !.digests = SeedLoop(state.digests, records, 1),
                !.seeded  = TRUE]

\* seed_from_records as it would be without the loop that files the digests
seed_from_records_FlagOnly(state, records) ==
  IF state.seeded THEN state
  ELSE [state EXCEPT !.seeded = TRUE]

seed_from_records(state, records) ==
  IF state.seeded THEN state
  ELSE [state EXCEPT !.digests = SeedLoop(state.digests, records, 1),
                     !.seeded  = TRUE]

\* ------------------------------------------------------------------------
\* orchestrator.py: selection
\* ------------------------------------------------------------------------

\* filter_new_or_changed: the default of per_run_max
DefaultPerRunMax == 50

\* records[:n] as it would be if the slice took the whole list
FirstN_All(xs, n) == xs

\* records[:n] for n >= 0
FirstN(xs, n) == IF n >= Len(xs) THEN xs ELSE SubSeq(xs, 1, n)

\* the change-detection loop as it would be without digests[fid] = fp
RECURSIVE ScanLoop_NoUpdate(_, _, _, _, _)
ScanLoop_NoUpdate(records, i, out, digests, per_run_max) ==
  IF i > Len(records)
    THEN [raised |-> "none", out |-> out, digests |-> digests]
  ELSE LET r == records[i]
       IN  IF "trainer_id" \notin DOMAIN r
             THEN [raised |-> "KeyError", out |-> out, digests |-> digests]
           ELSE LET fid == r["trainer_id"]
                    fp  == whites_fingerprint(Get(r, "white_list", <<>>))
                IN  IF fid \notin DOMAIN digests \/ digests[fid] # fp
                      THEN IF Len(out) + 1 >= per_run_max
                             THEN [raised  |-> "none",
                                   out     |-> Append(out, r),
                                   digests |-> digests]
                             ELSE ScanLoop_NoUpdate(records, i + 1,
                                                    Append(out, r), digests,
                                                    per_run_max)
                      ELSE ScanLoop_NoUpdate(records, i + 1, out, digests,
                                             per_run_max)

\* the change-detection loop as it would be without the break at the cap
RECURSIVE ScanLoop_NoBreak(_, _, _, _, _)
ScanLoop_NoBreak(records, i, out, digests, per_run_max) ==
  IF i > Len(records)
    THEN [raised |-> "none", out |-> out, digests |-> digests]
  ELSE LET r == records[i]
       IN  IF "trainer_id" \notin DOMAIN r
             THEN [raised |-> "KeyError", out |-> out, digests |-> digests]
           ELSE LET fid == r["trainer_id"]
                    fp  == whites_fingerprint(Get(r, "white_list", <<>>))
                IN  IF fid \notin DOMAIN digests \/ digests[fid] # fp
                      THEN ScanLoop_NoBreak(records, i + 1, Append(out, r),
                                            Put(digests, fid, fp), per_run_max)
                      ELSE ScanLoop_NoBreak(records, i + 1, out, digests,
                                            per_run_max)

\* The change-detection loop over records[i..], with the emissions out and
\* the digest table so far.  r["trainer_id"] raises KeyError for a record
\* that has no such key; the loop breaks once out holds per_run_max records.
RECURSIVE ScanLoop(_, _, _, _, _)
ScanLoop(records, i, out, digests, per_run_max) ==
  IF i > Len(records)
    THEN [raised |-> "none", out |-> out, digests |-> digests]
  ELSE LET r == records[i]
       IN  IF "trainer_id" \notin DOMAIN r
             THEN [raised |-> "KeyError", out |-> out, digests |-> digests]
           ELSE LET fid == r["trainer_id"]
                    fp  == whites_fingerprint(Get(r, "white_list", <<>>))
                IN  IF fid \notin DOMAIN digests \/ digests[fid] # fp
                      THEN IF Len(out) + 1 >= per_run_max
                             THEN [raised  |-> "none",
                                   out     |-> Append(out, r),
                                   digests |-> Put(digests, fid, fp)]
                             ELSE ScanLoop(records, i + 1, Append(out, r),
                                           Put(digests, fid, fp), per_run_max)
                      ELSE ScanLoop(records, i + 1, out, digests, per_run_max)

\* The result of the save that ends the seeding and the change-detection
\* branch: the list is returned only if the save did not raise.
filter_saved(out, sv) ==
  [fs     |-> sv.fs,
   out    |-> IF sv.raised = "none" THEN out ELSE <<>>,
   raised |-> sv.raised]

\* lines 42-45 as they would be if the list were returned without the save
filter_scanned_Unsaved(fs, t, site_id, url, state, sc, writeOk) ==
  [fs |-> fs, out |-> sc.out, raised |-> sc.raised]

\* lines 42-45, after the loop (result sc) over the loaded state
filter_scanned(fs, t, site_id, url, state, sc, writeOk) ==
  IF sc.raised # "none"
    THEN [fs |-> fs, out |-> <<>>, raised |-> sc.raised]
  ELSE filter_saved(sc.out,
                    save(fs, t, site_id, url,
                         trim_window([state EXCEPT !.digests = sc.digests]),
                         writeOk))

\* lines 17-40, after the load (result ld)
filter_loaded(fs, t, site_id, url, opts, records, writeOk, ld) ==
  IF ld.raised # "none"
    THEN [fs |-> fs, out |-> <<>>, raised |-> ld.raised]
  ELSE IF ~ld.state.seeded
    THEN filter_saved(<<>>,
                      save(fs, t, site_id, url,
                           trim_window(seed_from_records(ld.state, records)),
                           writeOk))
  ELSE IF ~Get(opts, "detect_updates", TRUE)
    THEN [fs     |-> fs,
          out    |-> FirstN(records, Get(opts, "per_run_max", DefaultPerRunMax)),
          raised |-> "none"]
  ELSE filter_scanned(fs, t, site_id, url, ld.state,
                      ScanLoop(records, 1, <<>>, ld.state.digests,
                               Get(opts, "per_run_max", DefaultPerRunMax)),
                      writeOk)

\* filter_new_or_changed(site_id, url, opts, records) at time t over the
\* file system fs; writeOk is whether the save it makes can write.
\* Returns the file system afterwards, the list returned (out) and the
\* exception that left the call ("none" when it returned).
filter_new_or_changed(fs, t, site_id, url, opts, records, writeOk) ==
  filter_loaded(fs, t, site_id, url, opts, records, writeOk,
                load(fs, t, site_id, url))

\* the paths the model's searches can touch
SelectPaths == {state_path(SiteId, Url1)}

\* a state file provisioned for (site_id, url) with a chosen window_limit:
\* what load creates, with that limit
ProvisionedState(site_id, url, w) ==
  [version      |-> 1,
   site_id      |-> site_id,
   search_url   |-> canon_url(site_id, url),
   seeded       |-> FALSE,
   digests      |-> EmptyDict,
   window_limit |-> w,
   created_at   |-> <<0>>,
   updated_at   |-> None]

VARIABLES
  files,    \* the state directory: path -> what the file holds
  now,      \* the clock, in ticks of the timestamps' resolution
  call,     \* the last call of filter_new_or_changed (or, where a function
            \* is followed on its own, of that function): inputs, state
            \* before, result
  ledger,   \* history: digest key -> the fingerprint it was last absorbed
            \* with; where save is followed step by step, the states that
            \* were passed to it; in run(), state key -> the list whose
            \* dispatch an exception cut short
  streak,   \* history: the state one call was first made on, and the lists
            \* its repetitions returned
  run       \* run(): the configuration, the position in its loops, its
            \* locals, and the history of the cycle (absorbed, sent); where
            \* the state store is followed step by step, the process that
            \* uses it

vars == <<files, now, call, ledger, streak, run>>

NoStreak == [start |-> None, outs |-> <<>>]

\* run() has not been called: nothing configured
NoRun ==
  [pc |-> "idle", searches |-> <<>>, site_options |-> EmptyDict, cycle |-> 0,
   idx |-> 0, records |-> <<>>, to_post |-> <<>>, k |-> 0, error |-> "none",
   scraped |-> {}, absorbed |-> {}, sent |-> <<>>]

NoCall ==
  [mode |-> "none", records |-> <<>>, opts |-> EmptyDict, pre |-> None,
   led |-> EmptyDict, out |-> <<>>, raised |-> "none"]

\* the branch a call takes, from the state it loads and its options
ModeOf(ld, opts) ==
  IF ld.raised # "none" THEN "error"
  ELSE IF ~ld.state.seeded THEN "seed"
  ELSE IF ~Get(opts, "detect_updates", TRUE) THEN "firehose"
  ELSE "diff"

\* the record of a call of filter_new_or_changed and its result: the branch
\* taken, the inputs, the state loaded (pre), the ledger before the call
\* (led), the list returned and the exception raised
CallRecord(ld, opts, records, led, res) ==
  [mode    |-> ModeOf(ld, opts),
   records |-> records,
   opts    |-> opts,
   pre     |-> ld.state,
   led     |-> led,
   out     |-> res.out,
   raised  |-> res.raised]

\* the digest key the change-detection loop uses for an emitted record
DiffKey(r) == r["trainer_id"]

\* history: the ledger after the emissions out have been absorbed
RECURSIVE AbsorbOut(_, _)
AbsorbOut(led, out) ==
  IF out = <<>> THEN led
  ELSE AbsorbOut(Put(led, DiffKey(Head(out)),
                     whites_fingerprint(Get(Head(out), "white_list", <<>>))),
                 Tail(out))

\* history: the ledger after a call
LedgerAfter(led, c) ==
  IF c.raised # "none" THEN led
  ELSE IF c.mode = "seed" THEN SeedLoop(led, c.records, 1)
  ELSE IF c.mode = "diff" THEN AbsorbOut(led, c.out)
  ELSE led

InitSelect ==
  /\ files \in [SelectPaths ->
                  {NoFile} \cup
                  {JsonFile(ProvisionedState(SiteId, Url1, w)) :
                     w \in 0..MaxWindowLimit}]
  /\ now = 0
  /\ call = NoCall
  /\ ledger = EmptyDict
  /\ streak = NoStreak
  /\ run = NoRun

\* the call has been made: its record is kept and the history follows
Recorded(fs, c) ==
  /\ files' = fs
  /\ call' = c
  /\ ledger' = LedgerAfter(ledger, c)
  /\ UNCHANGED now

\* the call has returned or raised, with result res
Returned(records, opts, res) ==
  Recorded(res.fs,
           CallRecord(load(files, now, SiteId, Url1), opts, records, ledger,
                      res))

\* the step of one call filter_new_or_changed(SiteId, Url1, opts, records)
DoCall(records, opts, writeOk) ==
  Returned(records, opts,
           filter_new_or_changed(files, now, SiteId, Url1, opts, records,
                                 writeOk))

\* a caller calls filter_new_or_changed with a batch and options
SelectCall ==
  /\ call.mode = "none"
  /\ \E records \in Batches, opts \in OptsSet, writeOk \in BOOLEAN :
       DoCall(records, opts, writeOk)
  /\ UNCHANGED <<streak, run>>

\* the caller runs the same call again at once
Rerun ==
  /\ call.mode # "none"
  /\ \E writeOk \in BOOLEAN : DoCall(call.records, call.opts, writeOk)
  /\ UNCHANGED <<streak, run>>

\* the caller is done with the result of the last call
Consume ==
  /\ call.mode # "none"
  /\ call' = NoCall
  /\ UNCHANGED <<files, now, ledger, streak, run>>

NextSelect == SelectCall \/ Rerun \/ Consume

SpecSelect == InitSelect /\ [][NextSelect]_vars

\* ------------------------------------------------------------------------
\* One call repeated: the caller presents the same batch run after run
\* ------------------------------------------------------------------------

\* the most runs of one call the model follows
MaxRuns == 4

\* the batches a search was seeded with before the repeated call
SeedBatches == {b \in Batches : Len(b) <= 1}

\* the state directory after the seeding call on a provisioned file
SeededFiles(w, b) ==
  filter_new_or_changed(
    [p \in SelectPaths |-> JsonFile(ProvisionedState(SiteId, Url1, w))],
    0, SiteId, Url1, EmptyDict, b, TRUE).fs

InitRepeat ==
  /\ files \in {[p \in SelectPaths |-> NoFile]}
               \cup {SeededFiles(w, b) :
                       w \in 0..MaxWindowLimit, b \in SeedBatches}
  /\ now = 0
  /\ call = NoCall
  /\ ledger = EmptyDict
  /\ streak = NoStreak
  /\ run = NoRun

\* the lists returned so far, with the one of the call just made
StreakAfter(c) ==
  [start |-> IF streak.outs = <<>> /\ call.mode = "none" THEN c.pre
             ELSE streak.start,
   outs  |-> IF c.raised = "none" THEN Append(streak.outs, c.out)
             ELSE streak.outs]

\* the first run of the call
FirstRun ==
  /\ call.mode = "none"
  /\ \E records \in Batches, opts \in OptsSet, writeOk \in BOOLEAN :
       /\ DoCall(records, opts, writeOk)
       /\ streak' = StreakAfter(call')
       /\ UNCHANGED run

\* the next run of the same call on the same batch
NextRun ==
  /\ call.mode # "none"
  /\ Len(streak.outs) < MaxRuns
  /\ \E writeOk \in BOOLEAN :
       /\ DoCall(call.records, call.opts, writeOk)
       /\ streak' = StreakAfter(call')
       /\ UNCHANGED run

NextRepeat == FirstRun \/ NextRun

SpecRepeat == InitRepeat /\ [][NextRepeat]_vars

\* ------------------------------------------------------------------------
\* Tokens and white lists: the normaliser and the fingerprint on their own
\* ------------------------------------------------------------------------

\* the longest white list fingerprinted
MaxTokens == 3
\* the longest token normalised
MaxTokenLen == 3

\* tokens of a white list: two names, one of them also with a blank before
\* it, and a token of nothing but a zero-width space
ListTokens == {<<"X">>, <<"Y">>, <<" ", "Y">>, <<"ZWSP">>}

\* the white lists made of them
TokenLists == UNION {[1..n -> ListTokens] : n \in 0..MaxTokens}

\* the spellings of the token Foo(Bar): a blank before the opening bracket
\* or none, after it or none, before the closing bracket or none
BracketToken(before, after, closing) ==
  <<"F", "o", "o">> \o (IF before THEN <<" ">> ELSE <<>>) \o <<"(">>
    \o (IF after THEN <<" ">> ELSE <<>>) \o <<"B", "a", "r">>
    \o (IF closing THEN <<" ">> ELSE <<>>) \o <<")">>

\* the white lists of one such token
BracketLists ==
  {<<BracketToken(b, a, c)>> : b \in BOOLEAN, a \in BOOLEAN, c \in BOOLEAN}

\* the characters of the tokens normalised: blanks, brackets and a comma,
\* a letter, the combining accent, and the invisible characters
TokenChars == {" ", "NBSP", "ZWSP", "(", "FWLP", ")", ",", "e", "ACUTE"}

\* the tokens normalised
TokenTexts == UNION {[1..n -> TokenChars] : n \in 0..MaxTokenLen}

\* a caller has two white lists at hand, or a token (None and the empty
\* string are one in the model)
InitText ==
  /\ files = EmptyDict
  /\ now = 0
  /\ \/ \E a, b \in TokenLists :
          call = [mode |-> "lists", a |-> a, b |-> b, fa |-> None,
                  fb |-> None]
     \/ \E a, b \in BracketLists :
          call = [mode |-> "lists", a |-> a, b |-> b, fa |-> None,
                  fb |-> None]
     \/ \E x \in TokenTexts :
          call = [mode |-> "token", x |-> x, once |-> None, twice |-> None]
  /\ ledger = EmptyDict
  /\ streak = NoStreak
  /\ run = NoRun

\* the caller fingerprints both lists
FingerprintLists ==
  /\ call.mode = "lists"
  /\ call' = [call EXCEPT !.mode = "fingerprinted",
                          !.fa = whites_fingerprint(call.a),
                          !.fb = whites_fingerprint(call.b)]
  /\ UNCHANGED <<files, now, ledger, streak, run>>

\* the caller normalises the token, and then the result once more
CleanToken ==
  /\ call.mode = "token"
  /\ call' = [call EXCEPT !.mode = "cleaned",
                          !.once = _clean_token(call.x),
                          !.twice = _clean_token(_clean_token(call.x))]
  /\ UNCHANGED <<files, now, ledger, streak, run>>

SpecText == InitText /\ [][FingerprintLists \/ CleanToken]_vars

\* ------------------------------------------------------------------------
\* Search URLs and their state files
\* ------------------------------------------------------------------------

\* The spellings of a search URL: scheme and host in lower or upper case, a
\* root or a one-segment path, a "/" after the path, at the very end of the
\* text, or nowhere, no query or two parameters in either order, and a
\* fragment or none.
UrlShapes ==
  [scheme : {<<"h", "t", "t", "p", "s">>, <<"H", "T", "T", "P", "S">>},
   host   : {<<"x", ".", "t", "e", "s", "t">>, <<"X", ".", "t", "e", "s", "t">>},
   path   : {<<>>, <<"/", "s">>},
   slash  : {"none", "path", "end"},
   query  : {<<>>, <<<<"b", "=", "2">>, <<"a", "=", "1">>>>, <<<<"a", "=", "1">>, <<"b", "=", "2">>>>},
   frag   : {<<>>, <<"#", "f">>}]

\* the text of the URL spelled as d says
UrlText(d) ==
  d.scheme \o <<":", "/", "/">> \o d.host \o d.path
    \o (IF d.slash = "path" THEN <<"/">> ELSE <<>>)
    \o (IF d.query = <<>> THEN <<>> ELSE <<"?">> \o Join(d.query, <<"&">>))
    \o (IF d.slash = "end" THEN <<"/">> ELSE <<>>)
    \o d.frag

\* two spellings of one search: they differ at most in the case of scheme
\* and host, the trailing slash, the order of the parameters, the fragment
SameSearch(a, b) ==
  /\ Lower(a.scheme) = Lower(b.scheme)
  /\ Lower(a.host) = Lower(b.host)
  /\ a.path = b.path
  /\ Range(a.query) = Range(b.query)

\* a caller has two spellings of one search at hand
InitUrl ==
  /\ files = EmptyDict
  /\ now = 0
  /\ \E a, b \in UrlShapes :
       /\ SameSearch(a, b)
       /\ call = [mode |-> "none", a |-> a, b |-> b, pa |-> None,
                  pb |-> None]
  /\ ledger = EmptyDict
  /\ streak = NoStreak
  /\ run = NoRun

\* the caller asks state_path for the state file of each
ResolveUrls ==
  /\ call.mode = "none"
  /\ call' = [call EXCEPT !.mode = "resolved",
                          !.pa = state_path(SiteId, UrlText(call.a)),
                          !.pb = state_path(SiteId, UrlText(call.b))]
  /\ UNCHANGED <<files, now, ledger, streak, run>>

SpecUrl == InitUrl /\ [][ResolveUrls]_vars

\* ------------------------------------------------------------------------
\* Calls with change detection switched off
\* ------------------------------------------------------------------------

\* options dicts with detect_updates false, with and without per_run_max
FirehoseOpts ==
  {[detect_updates |-> FALSE]}
  \cup {[detect_updates |-> FALSE, per_run_max |-> k] : k \in 0..MaxPerRunMax}

\* a caller calls filter_new_or_changed with detect_updates false
FirehoseCall ==
  /\ call.mode = "none"
  /\ \E records \in Batches, opts \in FirehoseOpts, writeOk \in BOOLEAN :
       DoCall(records, opts, writeOk)
  /\ UNCHANGED <<streak, run>>

SpecFirehose == InitRepeat /\ [][FirehoseCall \/ Consume]_vars

\* ------------------------------------------------------------------------
\* source_sites/uma_global.py, formatters, outputs: what run() calls
\* ------------------------------------------------------------------------

DEFAULTS ==
  [mode               |-> <<"f", "i", "r", "s", "t">>,
   max_pages          |-> 1,
   headless           |-> TRUE,
   verbose            |-> FALSE,
   search_timeout_ms  |-> 30000,
   trigger_timeout_ms |-> 1200,
   max_click_retries  |-> 3,
   settle_ms          |-> 250]

Staging == <<"s", "t", "a", "g", "i", "n", "g">>
Prod == <<"p", "r", "o", "d">>

PRESETS ==
  (Staging :> [headless |-> TRUE, mode |-> <<"f", "i", "r", "s", "t">>, verbose |-> TRUE])
  @@ (Prod :> [headless |-> TRUE, mode |-> <<"f", "i", "r", "s", "t">>, verbose |-> FALSE])

ALLOWED_KEYS == DOMAIN DEFAULTS

\* DEFAULTS <- PRESET <- site_options, filtered to ALLOWED_KEYS; mode is
\* lowercased
merge_site_options(site_options) ==
  LET preset == Get(site_options, "preset", None)
      base   == IF preset \in DOMAIN PRESETS
                  THEN [k \in ALLOWED_KEYS |->
                          Get(PRESETS[preset], k, DEFAULTS[k])]
                  ELSE DEFAULTS
      opts   == [k \in ALLOWED_KEYS |-> Get(site_options, k, base[k])]
  IN  [opts EXCEPT !.mode = Lower(opts.mode)]

\* the most records one scrape of the model returns
MaxScrape == 2

\* the cards the site can show: parse_card gives each a trainer_id of
\* digits and every field the formatter asks for
Cards ==
  {[trainer_id |-> <<"1">>, white_list |-> WlX,  id_url |-> IdUrl],
   [trainer_id |-> <<"2">>, white_list |-> WlX,  id_url |-> IdUrl],
   [trainer_id |-> <<"1">>, white_list |-> WlXY, id_url |-> IdUrl]}

\* scrape: the records of the cards found, each annotated with source_url
Annotate(cards, url) ==
  [i \in DOMAIN cards |->
     [k \in DOMAIN cards[i] \cup {"source_url"} |->
        IF k = "source_url" THEN url ELSE cards[i][k]]]

\* what one scrape can come back with: the records ([] also when the search
\* has no results), or an exception of the browser
ScrapeOutcomes(url) ==
  {[raised |-> "none", records |-> Annotate(cards, url)] :
     cards \in UNION {[1..n -> Cards] : n \in 0..MaxScrape}}
  \cup {[raised |-> "PlaywrightError", records |-> <<>>]}

\* make_title_and_body: the fields it requires of a record (of the eight,
\* the three the model's records carry)
RequiredFields == {"trainer_id", "white_list", "id_url"}

make_title_and_body(r) ==
  IF ~(RequiredFields \subseteq DOMAIN r)
    THEN [raised |-> "ValueError", title |-> <<>>]
  ELSE [raised |-> "none", title |-> Strip(CollapseWs(r["trainer_id"]))]

\* ------------------------------------------------------------------------
\* orchestrator.py: run()
\* ------------------------------------------------------------------------

\* the most cycles (calls of run) the model follows: one that seeds, one
\* that emits, one after it
MaxCycles == 3

\* the most searches of the configured site
MaxSearches == 2

SearchLists == UNION {[1..n -> Searches] : n \in 1..MaxSearches}

\* the options a sites file gives the site
SiteOptionsSet ==
  {EmptyDict,
   [preset |-> Staging, per_run_max |-> 1],
   [detect_updates |-> FALSE]}

\* the state files the configured searches can touch
RunPaths == {state_path(k[1], k[2]) : k \in StateKeys}

InitRun ==
  /\ files \in {fs \in [RunPaths -> {NoFile, Corrupt}] :
                  Cardinality({p \in RunPaths : fs[p] = Corrupt}) <= 1}
  /\ now = 0
  /\ call = NoCall
  /\ ledger = EmptyDict
  /\ streak = NoStreak
  /\ \E searches \in SearchLists, site_options \in SiteOptionsSet :
       run = [NoRun EXCEPT !.searches = searches,
                           !.site_options = site_options]

\* the end of the body of the loop over the searches: the next search, or
\* return 0
Advance(r) ==
  IF r.idx = Len(r.searches)
    THEN [r EXCEPT !.pc = "done", !.records = <<>>, !.to_post = <<>>,
                   !.k = 0]
  ELSE [r EXCEPT !.pc = "scrape", !.idx = r.idx + 1, !.records = <<>>,
                 !.to_post = <<>>, !.k = 0]

\* an exception leaves run()
Crash(r, error) == [r EXCEPT !.pc = "crashed", !.error = error]

\* run() is called (the next cycle of the scheduler)
StartRun ==
  /\ run.pc \in {"idle", "done", "crashed"}
  /\ run.cycle < MaxCycles
  /\ run' = [run EXCEPT !.pc = "scrape", !.cycle = run.cycle + 1, !.idx = 1,
                        !.records = <<>>, !.to_post = <<>>, !.k = 0,
                        !.error = "none", !.scraped = {}, !.absorbed = {},
                        !.sent = <<>>]
  /\ UNCHANGED <<files, now, call, ledger, streak>>

\* lines 58-64 as they would be without "if not records: continue"
ScrapeSearch_NoContinue ==
  /\ run.pc = "scrape"
  /\ \E res \in ScrapeOutcomes(run.searches[run.idx].url) :
       LET r1 == [run EXCEPT !.scraped = run.scraped \cup {run.idx}]
       IN  run' = IF res.raised # "none" THEN Crash(r1, res.raised)
                  ELSE [r1 EXCEPT !.pc = "select", !.records = res.records]
  /\ UNCHANGED <<files, now, call, ledger, streak>>

\* lines 58-64: the search is scraped; no records, and the loop continues
ScrapeSearch ==
  /\ run.pc = "scrape"
  /\ \E res \in ScrapeOutcomes(run.searches[run.idx].url) :
       LET r1 == [run EXCEPT !.scraped = run.scraped \cup {run.idx}]
       IN  run' = IF res.raised # "none" THEN Crash(r1, res.raised)
                  ELSE IF res.records = <<>> THEN Advance(r1)
                  ELSE [r1 EXCEPT !.pc = "select", !.records = res.records]
  /\ UNCHANGED <<files, now, call, ledger, streak>>

\* the records of out whose digest a call in change-detection mode left
\* inserted or updated in the state file at path
AbsorbedOf(fsBefore, fsAfter, path, out) ==
  IF fsBefore[path].kind # "json" \/ ~fsBefore[path].doc.seeded THEN {}
  ELSE LET before == fsBefore[path].doc.digests
           after  == fsAfter[path].doc.digests
       IN  {r \in Range(out) :
              /\ r["trainer_id"] \in DOMAIN after
              /\ after[r["trainer_id"]] = whites_fingerprint(r["white_list"])
              /\ \/ r["trainer_id"] \notin DOMAIN before
                 \/ before[r["trainer_id"]] # after[r["trainer_id"]]}

\* the cycle's history with the records a call absorbed
WithAbsorbed(r, abs) ==
  [r EXCEPT !.absorbed = r.absorbed \cup {<<r.idx, x>> : x \in abs}]

\* lines 75-80: the selection under the key state_key has returned f2, after
\* the one under the key url left the history r1
Selected(r1, f1fs, state_key, f2) ==
  IF f2.raised # "none"
    THEN /\ run' = Crash(r1, f2.raised)
         /\ files' = f2.fs
  ELSE /\ files' = f2.fs
       /\ run' = IF f2.out = <<>>
                   THEN Advance(WithAbsorbed(r1,
                          AbsorbedOf(f1fs, f2.fs,
                                     state_path(SiteId, state_key), f2.out)))
                  ELSE [WithAbsorbed(r1,
                          AbsorbedOf(f1fs, f2.fs,
                                     state_path(SiteId, state_key), f2.out))
                          EXCEPT !.pc = "dispatch", !.to_post = f2.out,
                                 !.k = 1]

\* lines 71-75: the selection under the key url has returned f1; its list
\* is overwritten by the selection under the key state_key
SelectedByUrl(url, state_key, eff_opts, f1, w2) ==
  IF f1.raised # "none"
    THEN /\ run' = Crash(run, f1.raised)
         /\ files' = f1.fs
  ELSE Selected(WithAbsorbed(run,
                  AbsorbedOf(files, f1.fs, state_path(SiteId, url), f1.out)),
                f1.fs, state_key,
                filter_new_or_changed(f1.fs, now, SiteId, state_key,
                                      eff_opts, run.records, w2))

\* lines 66-71: the debug load, then the selection under the key url
SelectFor(url, state_key, eff_opts, w1, w2) ==
  IF load(files, now, SiteId, url).raised # "none"
    THEN /\ run' = Crash(run, load(files, now, SiteId, url).raised)
         /\ files' = files
  ELSE SelectedByUrl(url, state_key, eff_opts,
                     filter_new_or_changed(files, now, SiteId, url, eff_opts,
                                           run.records, w1),
                     w2)

\* lines 66-80: the debug load, the selection under the key url, whose
\* result is overwritten, and the selection under the key state_key
SelectSearch ==
  /\ run.pc = "select"
  /\ \E w1, w2 \in BOOLEAN :
       SelectFor(run.searches[run.idx].url,
                 StateKeyOf(run.searches[run.idx]),
                 merge_site_options(run.site_options), w1, w2)
  /\ ledger' = Restrict(ledger,
                        DOMAIN ledger \ {StateKeyOf(run.searches[run.idx])})
  /\ UNCHANGED <<now, call, streak>>

\* lines 82-86: one record of to_post is rendered and sent to the outputs.
\* History: when an exception cuts the dispatch short, the list that was
\* being dispatched is kept under the state key of the search, until the
\* search is selected again.
DispatchRecord ==
  /\ run.pc = "dispatch"
  /\ \E sendOk \in BOOLEAN :
       LET r    == run.to_post[run.k]
           tb   == make_title_and_body(r)
           r1   == [run EXCEPT !.sent = Append(run.sent, <<run.idx, r>>)]
       IN  /\ run' = IF tb.raised # "none" THEN Crash(run, tb.raised)
                     ELSE IF ~sendOk THEN Crash(run, "SendError")
                     ELSE IF run.k = Len(run.to_post) THEN Advance(r1)
                     ELSE [r1 EXCEPT !.k = run.k + 1]
           /\ ledger' = IF tb.raised # "none" \/ ~sendOk
                          THEN Put(ledger, StateKeyOf(run.searches[run.idx]),
                                   run.to_post)
                        ELSE ledger
  /\ UNCHANGED <<files, now, call, streak>>

NextCycle == StartRun \/ ScrapeSearch \/ SelectSearch \/ DispatchRecord

SpecRun == InitRun /\ [][NextCycle]_vars

\* ------------------------------------------------------------------------
\* The state store step by step: one process loads the state of a search,
\* changes it in memory and saves it; save is followed statement by
\* statement, and the process may die between any two of them
\* ------------------------------------------------------------------------

\* the latest time on the clock
MaxNow == 1
\* the most saves the process begins
MaxSaves == 2

\* the state file of the search and the temp file save writes
StorePath == state_path(SiteId, Url1)
StoreTmp == tmp_path(StorePath)

\* the records the process files: those with a plain trainer_id, in two
\* versions of their white list
StoreRecords ==
  {r \in Records : /\ "trainer_id" \in DOMAIN r
                   /\ r["trainer_id"] \in PlainIds
                   /\ r["white_list"] \in {WlX, WlXY}}

\* the process holds no state: before load, or after the call that held it
\* has returned, raised, or died with the process
Idle(error) == [run EXCEPT !.pc = "idle", !.st = None, !.error = error]

InitStore ==
  /\ files \in [{StorePath, StoreTmp} -> {NoFile}]
               \cup {[p \in {StorePath, StoreTmp} |->
                       IF p = StorePath
                         THEN Dumped(ProvisionedState(SiteId, Url1, w))
                         ELSE NoFile] : w \in 0..MaxWindowLimit}
  /\ now = 0
  /\ call = NoCall
  /\ ledger = IF files[StorePath].kind = "json" THEN {files[StorePath].doc}
              ELSE {}
  /\ streak = NoStreak
  /\ run = [pc |-> "idle", st |-> None, error |-> "none", saves |-> 0]

\* the clock advances
Tick ==
  /\ now < MaxNow
  /\ now' = now + 1
  /\ UNCHANGED <<files, call, ledger, streak, run>>

\* st = load(site_id, url)
StoreLoad ==
  /\ run.pc = "idle"
  /\ LET ld == load(files, now, SiteId, Url1)
     IN  run' = IF ld.raised # "none" THEN [run EXCEPT !.error = ld.raised]
                ELSE [run EXCEPT !.pc = "held", !.st = ld.state,
                                 !.error = "none"]
  /\ call' = NoCall
  /\ UNCHANGED <<files, now, ledger, streak>>

\* seed_from_records(st, records)
StoreSeed ==
  /\ run.pc = "held"
  /\ \E records \in {<<>>} \cup {<<r>> : r \in StoreRecords} :
       /\ run' = [run EXCEPT !.st = seed_from_records(run.st, records)]
       /\ call' = NoCall
  /\ UNCHANGED <<files, now, ledger, streak>>

\* digests[fid] = fp, as the change-detection loop does on a seeded state
StorePut ==
  /\ run.pc = "held"
  /\ run.st.seeded
  /\ \E r \in StoreRecords :
       /\ run' = [run EXCEPT !.st.digests =
                     Put(run.st.digests, r["trainer_id"],
                         whites_fingerprint(r["white_list"]))]
       /\ call' = NoCall
  /\ UNCHANGED <<files, now, ledger, streak>>

\* trim_window(st)
StoreTrim ==
  /\ run.pc = "held"
  /\ run' = [run EXCEPT !.st = trim_window(run.st)]
  /\ call' = [NoCall EXCEPT !.mode = "trim"]
  /\ UNCHANGED <<files, now, ledger, streak>>

\* save, lines 99-102: st is stamped and the temp file is opened for
\* writing, which leaves it empty; the history takes note of the state
\* passed to save
SaveOpen ==
  /\ run.pc = "held"
  /\ run.saves < MaxSaves
  /\ run' = [run EXCEPT !.pc = "opened", !.st = Stamped(run.st, now),
                        !.saves = run.saves + 1]
  /\ files' = [files EXCEPT ![StoreTmp] = Corrupt]
  /\ ledger' = ledger \cup {Stamped(run.st, now)}
  /\ call' = NoCall
  /\ UNCHANGED <<now, streak>>

\* save, line 103: json.dump writes the whole text and the file is closed;
\* or a write fails, the temp file keeps the part written and OSError
\* leaves save and, through filter_new_or_changed, the call
SaveWrite ==
  /\ run.pc = "opened"
  /\ \E writeOk \in BOOLEAN :
       /\ run' = IF writeOk THEN [run EXCEPT !.pc = "written"]
                 ELSE Idle("OSError")
       /\ files' = IF writeOk
                     THEN [files EXCEPT ![StoreTmp] = Dumped(run.st)]
                   ELSE files
  /\ call' = NoCall
  /\ UNCHANGED <<now, ledger, streak>>

\* save, line 104: os.replace(tmp, p)
SaveReplace ==
  /\ run.pc = "written"
  /\ run' = [run EXCEPT !.pc = "saved"]
  /\ files' = [[files EXCEPT ![StorePath] = files[StoreTmp]]
                 EXCEPT ![StoreTmp] =
                   IF StoreTmp = StorePath THEN files[StoreTmp] ELSE NoFile]
  /\ call' = NoCall
  /\ UNCHANGED <<now, ledger, streak>>

\* the call that held the state returns
StoreReturn ==
  /\ run.pc \in {"held", "saved"}
  /\ run' = Idle("none")
  /\ call' = NoCall
  /\ UNCHANGED <<files, now, ledger, streak>>

\* the process dies, wherever it is; the next one starts with the files
\* as they are
StoreCrash ==
  /\ run.pc \in {"held", "opened", "written", "saved"}
  /\ run' = Idle("killed")
  /\ call' = NoCall
  /\ UNCHANGED <<files, now, ledger, streak>>

SpecStore ==
  InitStore
    /\ [][\/ Tick \/ StoreLoad \/ StoreSeed \/ StorePut \/ StoreTrim
          \/ SaveOpen \/ SaveWrite \/ SaveReplace \/ StoreReturn
          \/ StoreCrash]_vars

\* ------------------------------------------------------------------------
\* source_sites/uma_global.py: scrape and open_search, step by step.  Every
\* call into the browser either comes back or raises; the waits that have a
\* timeout raise PWTimeoutError when it passes.
\* ------------------------------------------------------------------------

\* the largest max_click_retries of the options (DEFAULTS gives 3)
MaxClickRetries == 3
\* the largest max_pages of the options (0 stands for all pages)
MaxPages == 2
\* the most pages of results the site has for one search
MaxSitePages == 2

\* the options scrape is called with, as far as scrape and open_search read
\* them
ScrapeOpts ==
  [max_click_retries : 0..MaxClickRetries, max_pages : 0..MaxPages]

\* scrape has been called with opts and is about to launch the browser
Scraping(opts) ==
  [pc |-> "launch", opts |-> opts, ctx |-> "none", attempt |-> 0,
   clicks |-> 0, status |-> "none", rows |-> 0, out |-> <<>>,
   pages_seen |-> 0, error |-> "none"]

InitSearch ==
  /\ files = EmptyDict
  /\ now = 0
  /\ call = NoCall
  /\ ledger = EmptyDict
  /\ streak = NoStreak
  /\ \E opts \in ScrapeOpts : run = Scraping(opts)

\* an exception leaves open_search, or the body of the try of scrape: the
\* finally clause is next
Raised(r, error) == [r EXCEPT !.pc = "finally", !.error = error]

\* open_search returns status to scrape
Return(r, status) == [r EXCEPT !.pc = "status", !.status = status]

\* scrape, lines 261-264: the browser, the context and the page are made; an
\* exception here leaves scrape through the with statement, which stops
\* Playwright and with it whatever was launched
Launch ==
  /\ run.pc = "launch"
  /\ \E ok \in BOOLEAN :
       run' = IF ok THEN [run EXCEPT !.pc = "goto", !.ctx = "open"]
              ELSE [run EXCEPT !.pc = "raised", !.error = "PlaywrightError"]
  /\ UNCHANGED <<files, now, call, ledger, streak>>

\* open_search, line 144: page.goto, outside every try of open_search
Goto ==
  /\ run.pc = "goto"
  /\ \E ok \in BOOLEAN :
       run' = IF ok THEN [run EXCEPT !.pc = "ready"]
              ELSE Raised(run, "PlaywrightError")
  /\ UNCHANGED <<files, now, call, ledger, streak>>

\* open_search, lines 147-153: the waits for the button and the table; only
\* PWTimeoutError is caught
WaitReady ==
  /\ run.pc = "ready"
  /\ \E res \in {"ready", "PWTimeoutError", "PlaywrightError"} :
       run' = IF res = "ready" THEN [run EXCEPT !.pc = "loop", !.attempt = 1]
              ELSE IF res = "PWTimeoutError" THEN Return(run, "failed")
              ELSE Raised(run, res)
  /\ UNCHANGED <<files, now, call, ledger, streak>>

\* open_search, lines 155 and 187-188: the next attempt of
\* range(1, max_click_retries + 1), or "failed" after the last
NextAttempt ==
  /\ run.pc = "loop"
  /\ run' = IF run.attempt <= run.opts.max_click_retries
              THEN [run EXCEPT !.pc = "click"]
            ELSE Return(run, "failed")
  /\ UNCHANGED <<files, now, call, ledger, streak>>

\* open_search, lines 158-161: the button is waited for and clicked once; an
\* exception of the wait or of the click goes to the handler of line 183
Click ==
  /\ run.pc = "click"
  /\ \E res \in {"clicked", "click raised", "not visible"} :
       run' = IF res = "clicked"
                THEN [run EXCEPT !.pc = "busy", !.clicks = run.clicks + 1]
              ELSE IF res = "click raised"
                THEN [run EXCEPT !.pc = "except", !.clicks = run.clicks + 1]
              ELSE [run EXCEPT !.pc = "except"]
  /\ UNCHANGED <<files, now, call, ledger, streak>>

\* open_search, lines 164-170: did the table go busy?  On PWTimeoutError
\* the attempt is given up after a wait (continue); another exception, also
\* one of that wait, goes to the handler of line 183
WaitBusy ==
  /\ run.pc = "busy"
  /\ \E res \in {"busy", "PWTimeoutError", "PlaywrightError"} :
       run' = IF res = "busy" THEN [run EXCEPT !.pc = "complete"]
              ELSE IF res = "PWTimeoutError"
                THEN [run EXCEPT !.pc = "loop", !.attempt = run.attempt + 1]
              ELSE [run EXCEPT !.pc = "except"]
  /\ UNCHANGED <<files, now, call, ledger, streak>>

\* open_search, lines 173-181: the wait for busy = false, then the rows are
\* counted: "results" or "empty"; a timeout or another exception goes to the
\* handler of line 183
WaitComplete ==
  /\ run.pc = "complete"
  /\ \E raised \in BOOLEAN, rows \in 0..MaxScrape :
       run' = IF raised THEN [run EXCEPT !.pc = "except"]
              ELSE Return([run EXCEPT !.rows = rows],
                          IF rows > 0 THEN "results" ELSE "empty")
  /\ UNCHANGED <<files, now, call, ledger, streak>>

\* open_search, lines 183-185: the handler logs and waits; an exception of
\* that wait leaves open_search
Except ==
  /\ run.pc = "except"
  /\ \E ok \in BOOLEAN :
       run' = IF ok THEN [run EXCEPT !.pc = "loop", !.attempt = run.attempt + 1]
              ELSE Raised(run, "PlaywrightError")
  /\ UNCHANGED <<files, now, call, ledger, streak>>

\* the records collect_page_records finds on a page in mode "first": the
\* record of the first card, or none
PageRecords == {<<>>} \cup {<<c>> : c \in Cards}

\* scrape, lines 274-281: not "results", and [] is returned; else the first
\* page is collected
CheckStatus ==
  /\ run.pc = "status"
  /\ \E recs \in PageRecords, ok \in BOOLEAN :
       run' = IF run.status # "results" THEN [run EXCEPT !.pc = "finally"]
              ELSE IF ~ok THEN Raised(run, "PlaywrightError")
              ELSE [run EXCEPT !.pc = "pager", !.out = recs,
                               !.pages_seen = 1]
  /\ UNCHANGED <<files, now, call, ledger, streak>>

\* scrape, lines 282-287: the loop over the further pages; go_next_page is
\* true when the site had another page and showed it
NextPage ==
  /\ run.pc = "pager"
  /\ \E more \in BOOLEAN, recs \in PageRecords, ok \in BOOLEAN :
       run' = IF ~(run.opts.max_pages = 0
                     \/ run.pages_seen < run.opts.max_pages)
                THEN [run EXCEPT !.pc = "finally"]
              ELSE IF ~ok THEN Raised(run, "PlaywrightError")
              ELSE IF ~(more /\ run.pages_seen < MaxSitePages)
                THEN [run EXCEPT !.pc = "finally"]
              ELSE [run EXCEPT !.pages_seen = run.pages_seen + 1,
                               !.out = run.out \o recs]
  /\ UNCHANGED <<files, now, call, ledger, streak>>

\* scrape, lines 288-295: the finally clause closes the context and the
\* browser; then the exception goes on, or out is annotated and returned
Finally ==
  /\ run.pc = "finally"
  /\ run' = [run EXCEPT !.ctx = "closed",
                        !.pc = IF run.error # "none" THEN "raised"
                               ELSE "returned",
                        !.out = IF run.error # "none" THEN <<>>
                                ELSE Annotate(run.out, Url1)]
  /\ UNCHANGED <<files, now, call, ledger, streak>>

NextSearch ==
  \/ Launch \/ Goto \/ WaitReady \/ NextAttempt \/ Click \/ WaitBusy
  \/ WaitComplete \/ Except \/ CheckStatus \/ NextPage \/ Finally

SpecSearch == InitSearch /\ [][NextSearch]_vars

\* the waits of open_search time out and the calls come back: no step of
\* scrape waits forever
FairSpecSearch == SpecSearch /\ WF_vars(NextSearch)

\* ------------------------------------------------------------------------
\* Properties of the selection step (under SpecSelect)
\* ------------------------------------------------------------------------

\* the state file of the search
SelectPath == state_path(SiteId, Url1)

\* the digests persisted for the search ({} while there is no readable file)
PersistedDigests ==
  IF files[SelectPath].kind = "json" THEN files[SelectPath].doc.digests
  ELSE EmptyDict

HasId(r) == "trainer_id" \in DOMAIN r

Fingerprint(r) == whites_fingerprint(Get(r, "white_list", <<>>))

PerRunMaxOf(opts) == Get(opts, "per_run_max", DefaultPerRunMax)

\* the digest keys of a list of emitted records
OutKeys(out) == {DiffKey(out[i]) : i \in DOMAIN out}

\* the key seeding files a record under, <<>> when it files it nowhere
SeedKey(r) == Strip(Get(r, "trainer_id", <<>>))

\* the last call ran the change-detection branch and returned
DiffReturned == call.mode = "diff" /\ call.raised = "none"

\* the last call ran the seeding branch and returned
SeedReturned == call.mode = "seed" /\ call.raised = "none"

SeedKeys(records) ==
  {SeedKey(records[i]) : i \in DOMAIN records} \ {<<>>}

\* the last record of the batch that seeding files under key k
LastWithSeedKey(records, k) ==
  records[CHOOSE i \in DOMAIN records :
            /\ SeedKey(records[i]) = k
            /\ \A j \in DOMAIN records : SeedKey(records[j]) = k => j <= i]

\* C2 (as claimed): a call on an unseeded state returns no emission, leaves
\* seeded = true persisted, and the persisted digests hold an entry, the
\* white-list fingerprint, for every record of the batch with a non-empty
\* trainer_id.
C2_SeedingAbsorbsAll ==
  SeedReturned =>
    /\ call.out = <<>>
    /\ files[SelectPath].kind = "json"
    /\ files[SelectPath].doc.seeded
    /\ \A k \in SeedKeys(call.records) :
         /\ k \in DOMAIN PersistedDigests
         /\ PersistedDigests[k] = Fingerprint(LastWithSeedKey(call.records, k))

\* C2 (amended): a call on an unseeded state returns no emission and leaves
\* seeded = true persisted; the persisted digests hold, under the stripped
\* id, the fingerprint of the last record with that id, for exactly the ids
\* trim_window keeps: all of them when the batch has at most window_limit
\* ids or window_limit is 0, else the window_limit greatest.
C2_SeedingAbsorbsWindow ==
  SeedReturned =>
    /\ call.out = <<>>
    /\ files[SelectPath].kind = "json"
    /\ files[SelectPath].doc.seeded
    /\ DOMAIN PersistedDigests \subseteq SeedKeys(call.records)
    /\ \A k \in SeedKeys(call.records) :
         LET greater == {x \in SeedKeys(call.records) : StrLess(k, x)}
             w       == call.pre.window_limit
         IN  /\ k \in DOMAIN PersistedDigests
                 <=> (w = 0 \/ Cardinality(greater) < w)
             /\ k \in DOMAIN PersistedDigests =>
                  PersistedDigests[k]
                    = Fingerprint(LastWithSeedKey(call.records, k))

\* C2 witness: a seeding call returned for a batch with more ids than the
\* window holds.
C2_Witness ==
  /\ SeedReturned
  /\ call.pre.window_limit > 0
  /\ Cardinality(SeedKeys(call.records)) > call.pre.window_limit
  /\ PersistedDigests # EmptyDict

\* The scan as C3 words it, over records[i..]: a record is emitted iff its
\* id is absent from the digests or filed with another fingerprint at the
\* moment it is scanned and the cap has not been reached; an emitted
\* record's digest becomes its fingerprint; a record without an id is
\* passed over.
RECURSIVE ClaimedScan(_, _, _, _, _)
ClaimedScan(records, i, out, digests, cap) ==
  IF i > Len(records) THEN [out |-> out, digests |-> digests]
  ELSE LET r == records[i]
       IN  IF /\ HasId(r)
              /\ Len(out) < cap
              /\ \/ DiffKey(r) \notin DOMAIN digests
                 \/ digests[DiffKey(r)] # Fingerprint(r)
             THEN ClaimedScan(records, i + 1, Append(out, r),
                              Put(digests, DiffKey(r), Fingerprint(r)), cap)
             ELSE ClaimedScan(records, i + 1, out, digests, cap)

\* C3 (as claimed): in seeded state with detect_updates true, for a batch of
\* records that all have a trainer_id, the records emitted and the digests
\* written are those of the scan as C3 words it: a record is emitted iff it
\* is new or changed when it is scanned and the cap has not been reached.
C3_EmitsIffNewOrChanged ==
  (/\ call.mode = "diff"
   /\ call.raised # "OSError"
   /\ \A i \in DOMAIN call.records : HasId(call.records[i])) =>
    LET want == ClaimedScan(call.records, 1, <<>>, call.pre.digests,
                            PerRunMaxOf(call.opts))
    IN  /\ call.out = want.out
        /\ call.raised = "none" =>
             PersistedDigests
               = trim_window([call.pre EXCEPT !.digests = want.digests]).digests

\* the keys whose persisted digest the last call inserted or changed
ChangedKeys ==
  {k \in DOMAIN PersistedDigests :
     \/ k \notin DOMAIN call.pre.digests
     \/ call.pre.digests[k] # PersistedDigests[k]}

\* C4 (as claimed): one run in seeded change-detection mode emits at most
\* per_run_max records, for every per_run_max >= 0, and inserts or changes
\* the digests of emitted records only.
C4_AtMostPerRunMax ==
  DiffReturned =>
    /\ Len(call.out) <= PerRunMaxOf(call.opts)
    /\ ChangedKeys \subseteq OutKeys(call.out)

\* the digest keys of the records of a batch that have a trainer_id
BatchKeys(records) ==
  {DiffKey(records[i]) : i \in {j \in DOMAIN records : HasId(records[j])}}

\* the batch is one of distinct records, each with a non-empty trainer_id,
\* that are new to the digests
BatchIsNew(records, digests) ==
  /\ \A i \in DOMAIN records :
       /\ HasId(records[i])
       /\ DiffKey(records[i]) # <<>>
       /\ DiffKey(records[i]) \notin DOMAIN digests
  /\ \A i, j \in DOMAIN records :
       DiffKey(records[i]) = DiffKey(records[j]) => i = j

\* every id of the batch is among the window_limit greatest of the ids in
\* digests and in the batch together, or window_limit is 0: trim_window
\* then never drops an id of the batch
BatchFitsWindow(records, st) ==
  \/ st.window_limit = 0
  \/ \A k \in BatchKeys(records) :
       Cardinality({x \in DOMAIN st.digests \cup BatchKeys(records) :
                      StrLess(k, x)})
         < st.window_limit

\* the j-th slice of k records of the batch
Chunk(records, j, k) ==
  LET lo == (j - 1) * k + 1
      hi == IF j * k < Len(records) THEN j * k ELSE Len(records)
  IN  IF lo > hi THEN <<>> ELSE SubSeq(records, lo, hi)

\* a batch of distinct new records is being presented run after run to a
\* seeded search in change-detection mode with per_run_max >= 1
CappedRepeat ==
  /\ streak.outs # <<>>
  /\ streak.start.seeded
  /\ Get(call.opts, "detect_updates", TRUE)
  /\ PerRunMaxOf(call.opts) >= 1
  /\ BatchIsNew(call.records, streak.start.digests)

\* C5 (as claimed), under SpecRepeat: when the same batch of n distinct new
\* records is presented on repeated runs with per_run_max = k >= 1, the runs
\* emit the batch k records at a time in batch order, each record once, and
\* nothing after that.
C5_DeferredEmittedOnce ==
  CappedRepeat =>
    \A j \in DOMAIN streak.outs :
      streak.outs[j] = Chunk(call.records, j, PerRunMaxOf(call.opts))

\* C5 (amended), under SpecRepeat: the same, provided every id of the batch
\* is among the window_limit greatest of the tracked ids and the batch's ids
\* together, or window_limit is 0, so that trim_window drops no id of the
\* batch.
C5_DeferredEmittedOnceInWindow ==
  (CappedRepeat /\ BatchFitsWindow(call.records, streak.start)) =>
    \A j \in DOMAIN streak.outs :
      streak.outs[j] = Chunk(call.records, j, PerRunMaxOf(call.opts))

\* C5 witness: a batch of two new records went out one per run, and the
\* third run emitted nothing.
C5_Witness ==
  /\ CappedRepeat
  /\ BatchFitsWindow(call.records, streak.start)
  /\ streak.start.window_limit > 0
  /\ PerRunMaxOf(call.opts) = 1
  /\ Len(call.records) = 2
  /\ Len(streak.outs) >= 3
  /\ streak.outs[1] = <<call.records[1]>>
  /\ streak.outs[2] = <<call.records[2]>>
  /\ streak.outs[3] = <<>>

\* a record whose trainer_id is missing or empty
NoId(r) == ~HasId(r) \/ r["trainer_id"] = <<>>

\* C6 (as claimed): in seeding and in change-detection mode a record with a
\* missing or empty trainer_id is skipped: it is not emitted, files nothing
\* in digests, and the rest of the batch is processed (the call returns
\* unless the save fails).
C6_NoIdSkipped ==
  (call.mode \in {"seed", "diff"} /\ call.raised # "OSError") =>
    /\ call.raised = "none"
    /\ \A i \in DOMAIN call.out : ~NoId(call.out[i])
    /\ <<>> \notin DOMAIN PersistedDigests

\* no trainer_id stands in the batch with two different fingerprints
NoConflictingIds(records) ==
  \A i, j \in DOMAIN records :
    (HasId(records[i]) /\ HasId(records[j])
       /\ DiffKey(records[i]) = DiffKey(records[j]))
      => Fingerprint(records[i]) = Fingerprint(records[j])

\* the step is a run of the call that was just made
IsRerunStep == call.mode # "none" /\ call'.mode # "none"

\* C7 (as claimed), under SpecRepeat: if a run that selected by change
\* detection emitted fewer than per_run_max records, the same call made
\* again at once emits nothing and leaves the persisted digests as they
\* are, for every batch, also one in which a trainer_id appears twice.
C7_RerunStep ==
  (/\ IsRerunStep
   /\ call.mode = "diff"
   /\ call.raised = "none"
   /\ Len(call.out) < PerRunMaxOf(call.opts))
    => /\ call'.out = <<>>
       /\ PersistedDigests' = PersistedDigests

C7_DiffRerunStep ==
  (/\ IsRerunStep
   /\ call.mode = "diff"
   /\ call.raised = "none"
   /\ Len(call.out) < PerRunMaxOf(call.opts)
   /\ NoConflictingIds(call.records)
   /\ BatchFitsWindow(call.records, call.pre))
    => /\ call'.out = <<>>
       /\ PersistedDigests' = PersistedDigests

RunEnded == run.pc \in {"done", "crashed"}

\* C8 (as claimed), under SpecRun: when run() returns, every record whose
\* digest a selection in change-detection mode inserted or updated in a
\* state file during the cycle has been rendered and sent in that cycle.
C8_AbsorbedAreDispatched ==
  run.pc = "done" =>
    \A e \in run.absorbed : \E i \in DOMAIN run.sent : run.sent[i] = e

\* C9 (as claimed), under SpecRun: a malformed state file costs the cycle
\* only the search it belongs to: when nothing else went wrong, the call of
\* run() ends with every configured search scraped.
C9_CorruptStateSkipsOneSearch ==
  (RunEnded /\ run.error \in {"none", "JSONDecodeError"}) =>
    run.scraped = DOMAIN run.searches

\* the errors of one search that C10 names, as the model raises them
SearchErrors == {"PlaywrightError", "OSError", "ValueError", "SendError"}

\* C10 (as claimed), under SpecRun: an exception of the scraper, of the
\* save, of the formatter or of the delivery in one search does not keep
\* run() from the searches after it: the call ends with every configured
\* search scraped.
C10_SearchErrorsStayLocal ==
  (RunEnded /\ run.error \in SearchErrors) =>
    run.scraped = DOMAIN run.searches

\* ------------------------------------------------------------------------
\* Properties of the state store (under SpecStore)
\* ------------------------------------------------------------------------

\* the state file is absent or holds one complete state that was passed to
\* a save
StoreFileOk ==
  \/ files[StorePath] = NoFile
  \/ /\ files[StorePath].kind = "json"
     /\ files[StorePath].doc \in ledger

\* C11: at every point of a save, a crash or an I/O error between the
\* opening of the temp file and the rename included, the file at state_path
\* is absent or holds exactly one complete state that was passed to an
\* earlier or the current save; no step but the rename changes that file,
\* so a crash or a write failure before it leaves the state saved last in
\* place; and save is left before the rename only by the error raised (or
\* the death of the process), never by a normal return.
C11_SaveAtomic ==
  /\ StoreFileOk
  /\ [][/\ StoreFileOk'
        /\ (run'.pc # "saved" => files'[StorePath] = files[StorePath])
        /\ (run.pc \in {"opened", "written"} /\ run'.pc = "idle"
              => run'.error \in {"OSError", "killed"})]_vars

\* a write failed in a save that followed a completed one: the state file
\* holds the state of the completed save and the temp file the part written
C11_Witness ==
  /\ run.error = "OSError"
  /\ files[StoreTmp] = Corrupt
  /\ files[StorePath].kind = "json"
  /\ files[StorePath].doc.updated_at # None
  /\ Cardinality(ledger) >= 2
  /\ files[StorePath].doc.digests # EmptyDict

\* C15: save(site_id, url, st) followed by load(site_id, url) returns a
\* state equal to st in all fields (version, site_id, search_url, seeded,
\* the contents of digests, window_limit, created_at, and the updated_at
\* that save stamped).
C15_SaveLoadRoundTrip ==
  run.pc = "saved"
    => load(files, now, SiteId, Url1) = [raised |-> "none", state |-> run.st]

\* a seeded state with two digests, created at time 0 and saved at time 1,
\* has been saved
C15_Witness ==
  /\ run.pc = "saved"
  /\ run.st.seeded
  /\ Cardinality(DOMAIN run.st.digests) = 2
  /\ run.st.updated_at = <<1>>
  /\ run.st.created_at = <<0>>

\* the step is a call of trim_window on the state held
IsTrimStep == run.pc = "held" /\ call'.mode = "trim" /\ now' = now

\* the ids of d that are among the n greatest
GreatestIds(d, n) ==
  {k \in DOMAIN d : Cardinality({x \in DOMAIN d : StrLess(k, x)}) < n}

\* what the claim says of trim_window, of the state before and after
TrimmedToWindow(pre, post) ==
  /\ Cardinality(DOMAIN post.digests) <= pre.window_limit
  /\ IF Cardinality(DOMAIN pre.digests) > pre.window_limit
       THEN post = [pre EXCEPT !.digests =
                      Restrict(pre.digests,
                               GreatestIds(pre.digests, pre.window_limit))]
       ELSE post = pre
  /\ trim_window(post) = post

\* C16: for every state and every window_limit >= 0, after trim_window the
\* digest map has at most window_limit entries; if it had more, exactly the
\* window_limit lexicographically greatest ids remain with their digests
\* unchanged, otherwise the map is unchanged; a second trim_window changes
\* nothing.
C16_TrimKeepsWindow ==
  [][IsTrimStep => TrimmedToWindow(run.st, run'.st)]_vars

\* C16 for the window limits of at least 1
C16_TrimKeepsPositiveWindow ==
  [][IsTrimStep /\ run.st.window_limit >= 1
       => TrimmedToWindow(run.st, run'.st)]_vars

\* ------------------------------------------------------------------------
\* Properties of run() (under SpecRun), continued
\* ------------------------------------------------------------------------

\* the step is a scrape that returned no records
IsEmptyScrape ==
  run.pc = "scrape" /\ run'.pc # "crashed" /\ run'.records = <<>>

\* C12: when the scraper returns no records for a search, run() emits
\* nothing for that search, leaves every persisted state file unchanged (no
\* seeding, no save, no seeded flag flipped), and continues with the next
\* search (or returns, after the last one).
C12_EmptyScrapeLeavesState ==
  [][IsEmptyScrape
       => /\ files' = files
          /\ run'.sent = run.sent
          /\ run'.absorbed = run.absorbed
          /\ run'.to_post = <<>>
          /\ run'.error = "none"
          /\ IF run.idx < Len(run.searches)
               THEN run'.pc = "scrape" /\ run'.idx = run.idx + 1
               ELSE run'.pc = "done"]_vars

\* the first search of the first run came back empty: run() is at the
\* second search and no state file has been written
C12_Witness ==
  /\ run.cycle = 1
  /\ run.pc = "scrape"
  /\ run.idx = 2
  /\ run.scraped = {1}
  /\ \A p \in DOMAIN files : files[p] = NoFile

\* ------------------------------------------------------------------------
\* Properties of the calls with change detection off (under SpecFirehose)
\* ------------------------------------------------------------------------

\* min(a, b)
Min(a, b) == IF a <= b THEN a ELSE b

\* C13: in seeded state with detect_updates false, filter_new_or_changed
\* returns the first min(per_run_max, len(batch)) records of the batch in
\* batch order, whatever their digests, and leaves the persisted state
\* (digests, seeded, updated_at) unchanged.
C13_FirehoseReturnsPrefix ==
  (/\ call.mode # "none"
   /\ call.pre # None
   /\ call.pre.seeded
   /\ ~Get(call.opts, "detect_updates", TRUE))
    => /\ call.raised = "none"
       /\ Len(call.out) = Min(PerRunMaxOf(call.opts), Len(call.records))
       /\ \A i \in DOMAIN call.out : call.out[i] = call.records[i]
       /\ files[SelectPath] = JsonFile(call.pre)

\* a call with per_run_max 1 on a seeded state has returned the first of
\* two records, one whose digest is on file unchanged and without looking
\* at the second, which has no trainer_id
C13_Witness ==
  /\ call.mode = "firehose"
  /\ PerRunMaxOf(call.opts) = 1
  /\ Len(call.records) = 2
  /\ Len(call.out) = 1
  /\ HasId(call.records[1])
  /\ DiffKey(call.records[1]) \in DOMAIN call.pre.digests
  /\ call.pre.digests[DiffKey(call.records[1])] = Fingerprint(call.records[1])
  /\ ~HasId(call.records[2])

\* ------------------------------------------------------------------------
\* Properties of state_path (under SpecUrl)
\* ------------------------------------------------------------------------

\* C14: two URLs that differ only in the letter case of scheme and host, one
\* trailing slash, the order of the query parameters, or the fragment
\* resolve to the same state key for a given site_id; among them
\* "https://x.test/s?b=2&a=1" and "https://X.test/s?a=1&b=2/".
C14_CosmeticUrlsShareKey ==
  call.mode = "resolved" => call.pa = call.pb

\* the trailing slash of d, if it has one, ends a path that is not the root
SlashEndsPath(d) ==
  \/ d.slash = "none"
  \/ d.path # <<>> /\ (d.slash = "path" \/ d.query = <<>>)

\* C14, for a trailing slash that ends a path other than the root: two such
\* URLs that differ only in the letter case of scheme and host, that slash,
\* the order of the query parameters, or the fragment resolve to the same
\* state key.
C14_CosmeticUrlsShareKeyOffRoot ==
  (call.mode = "resolved" /\ SlashEndsPath(call.a) /\ SlashEndsPath(call.b))
    => call.pa = call.pb

\* two spellings that differ in all four respects have been resolved to one
\* state file
C14_Witness ==
  /\ call.mode = "resolved"
  /\ call.a.scheme # call.b.scheme
  /\ call.a.host # call.b.host
  /\ call.a.slash = "path"
  /\ call.b.slash = "none"
  /\ call.a.query # <<>>
  /\ call.a.query # call.b.query
  /\ call.a.frag # call.b.frag
  /\ call.pa = call.pb

\* ------------------------------------------------------------------------
\* Properties of the normaliser and the fingerprint (under SpecText)
\* ------------------------------------------------------------------------

\* how often the token t is among the normalised tokens of the list xs
TimesIn(t, xs) == Cardinality({i \in DOMAIN xs : _clean_token(xs[i]) = t})

\* the lists a and b have the same multiset of non-empty normalised tokens
SameTokens(a, b) ==
  \A t \in {_clean_token(x) : x \in Range(a) \cup Range(b)} \ {<<>>} :
    TimesIn(t, a) = TimesIn(t, b)

\* C17: whites_fingerprint depends only on the multiset of non-empty
\* normalised tokens: a permutation of the list, and the insertion or
\* removal of tokens that normalise to the empty string, give the same
\* fingerprint; an empty or all-empty list gives the fingerprint of the
\* empty string, not an error.
C17_FingerprintOfTokenMultiset ==
  call.mode = "fingerprinted"
    => /\ SameTokens(call.a, call.b) => call.fa = call.fb
       /\ SameTokens(call.a, <<>>) => call.fa = Sha1(<<>>)

\* two lists of different lengths that hold X and Y in opposite orders,
\* one of them with tokens that normalise to nothing, got one fingerprint
C17_Witness ==
  /\ call.mode = "fingerprinted"
  /\ Len(call.a) = 2
  /\ Len(call.b) = 3
  /\ call.a[1] = <<"X">>
  /\ call.a[2] = <<"Y">>
  /\ call.b[1] = <<" ", "Y">>
  /\ call.b[2] = <<"ZWSP">>
  /\ call.b[3] = <<"X">>
  /\ call.fa = call.fb

\* both lists hold one spelling of the token Foo(Bar)
BracketPair == call.a \in BracketLists /\ call.b \in BracketLists

\* C18: cosmetic spacing around brackets does not change the fingerprint:
\* whites_fingerprint(["Foo ( Bar )"]) equals
\* whites_fingerprint(["Foo(Bar)"]).
C18_BracketSpacingIgnored ==
  (call.mode = "fingerprinted" /\ BracketPair) => call.fa = call.fb

\* the token of the list xs has a blank before its opening bracket
BlankBeforeBracket(xs) == xs[1][4] = " "

\* C18, for the spacing inside the brackets: two spellings that differ only
\* in blanks after the opening and before the closing bracket have the same
\* fingerprint, and two that differ in a blank before the opening bracket
\* have different ones.
C18_InnerBracketSpacingIgnored ==
  (call.mode = "fingerprinted" /\ BracketPair)
    => (call.fa = call.fb
          <=> BlankBeforeBracket(call.a) = BlankBeforeBracket(call.b))

\* ["Foo ( Bar )"] and ["Foo (Bar)"] got one fingerprint
C18_Witness ==
  /\ call.mode = "fingerprinted"
  /\ call.a = <<BracketToken(TRUE, TRUE, TRUE)>>
  /\ call.b = <<BracketToken(TRUE, FALSE, FALSE)>>
  /\ call.fa = call.fb

\* C19: the normaliser is idempotent and total: for every string x, the
\* empty one and None included, _clean_token(_clean_token(x)) equals
\* _clean_token(x), also when x holds zero-width characters, combining
\* marks, runs of whitespace and bracket or comma spacing in any
\* combination.
C19_CleanTokenIdempotent ==
  call.mode = "cleaned" => call.twice = call.once

\* C19 for the tokens without a combining mark
C19_CleanTokenIdempotentUnmarked ==
  (call.mode = "cleaned" /\ "ACUTE" \notin Range(call.x))
    => call.twice = call.once

\* ------------------------------------------------------------------------
\* Properties of the selection step (under SpecSelect), continued
\* ------------------------------------------------------------------------

\* the state file of the search holds a seeded state
PersistedSeeded ==
  files[SelectPath].kind = "json" /\ files[SelectPath].doc.seeded

\* C20: SEEDED is terminal: once the persisted state of a search has
\* seeded = true, no run of filter_new_or_changed, whatever its batch and
\* options, leaves a persisted state with seeded = false, no later run takes
\* the seeding branch, and seed_from_records on the seeded state, with the
\* batch of the run, changes neither digests nor seeded.
C20_SeededIsTerminal ==
  [][PersistedSeeded
       => /\ PersistedSeeded'
          /\ call'.mode = "seed" => call' = call
          /\ seed_from_records(files[SelectPath].doc, call'.records)
               = files[SelectPath].doc]_vars

\* a run in change-detection mode on a seeded state has emitted and saved,
\* and the state on file is seeded still
C20_Witness ==
  /\ PersistedSeeded
  /\ call.mode = "diff"
  /\ call.pre.seeded
  /\ call.out # <<>>
  /\ call.raised = "none"
  /\ PersistedDigests # call.pre.digests

\* ------------------------------------------------------------------------
\* Properties of the scan of one batch (under SpecSelect)
\* ------------------------------------------------------------------------

\* the records of the batch with digest key k, in batch order
Occurrences(records, k) ==
  SelectSeq(records, LAMBDA r : HasId(r) /\ DiffKey(r) = k)

\* the emissions with digest key k, in the order they were emitted
EmissionsOf(out, k) == SelectSeq(out, LAMBDA r : DiffKey(r) = k)

\* Of the occurrences occ of one id, those whose fingerprint differs from
\* the digest the id has when they are scanned: the fingerprint prev the id
\* is filed with (known), or none (~known), and after an occurrence that
\* differed, the fingerprint of that occurrence.
RECURSIVE Differing(_, _, _)
Differing(occ, known, prev) ==
  IF occ = <<>> THEN <<>>
  ELSE IF known /\ prev = Fingerprint(Head(occ))
    THEN Differing(Tail(occ), known, prev)
  ELSE <<Head(occ)>> \o Differing(Tail(occ), TRUE, Fingerprint(Head(occ)))

\* the occurrences of k in the batch of the last call that differ from the
\* occurrence before them, the first one from the digest the state held
DifferingOf(k) ==
  Differing(Occurrences(call.records, k),
            k \in DOMAIN call.pre.digests,
            Get(call.pre.digests, k, None))

\* the fingerprint of the last occurrence of k in the batch
LastFingerprint(records, k) ==
  Fingerprint(Occurrences(records, k)[Len(Occurrences(records, k))])

\* the ids that stand in the batch more than once
RepeatedKeys(records) ==
  {k \in BatchKeys(records) : Len(Occurrences(records, k)) >= 2}

IsPrefix(a, b) == Len(a) <= Len(b) /\ a = SubSeq(b, 1, Len(a))

\* C21 (as claimed): within one batch scanned by change detection, each
\* occurrence of a trainer_id is compared against the digest written for the
\* occurrence before it: of two occurrences with one fingerprint only the
\* first can be emitted, a later occurrence with another fingerprint is
\* emitted again, and the fingerprint of the last occurrence is the one the
\* persisted digests hold for the id.
C21_LaterOccurrenceCompared ==
  DiffReturned =>
    \A k \in RepeatedKeys(call.records) :
      /\ EmissionsOf(call.out, k) = DifferingOf(k)
      /\ k \in DOMAIN PersistedDigests
      /\ PersistedDigests[k] = LastFingerprint(call.records, k)

\* C21 (amended): the emissions of an id are its occurrences that differ
\* from the occurrence before them, up to the one at which the cap stopped
\* the scan; when the run emitted fewer than per_run_max records, they are
\* all of these, and the persisted digests hold the fingerprint of the last
\* occurrence for every id of the batch that trim_window keeps: every id
\* when the batch fits the window.
C21_ScannedOccurrenceCompared ==
  DiffReturned =>
    \A k \in BatchKeys(call.records) :
      /\ IsPrefix(EmissionsOf(call.out, k), DifferingOf(k))
      /\ Len(call.out) < PerRunMaxOf(call.opts) =>
           /\ EmissionsOf(call.out, k) = DifferingOf(k)
           /\ k \in DOMAIN PersistedDigests =>
                PersistedDigests[k] = LastFingerprint(call.records, k)
           /\ BatchFitsWindow(call.records, call.pre) =>
                k \in DOMAIN PersistedDigests

\* C21 witness: a run below the cap scanned a batch in which one id stands
\* twice, with two fingerprints; it emitted both occurrences and filed the
\* fingerprint of the second.
C21_Witness ==
  /\ DiffReturned
  /\ Len(call.out) < PerRunMaxOf(call.opts)
  /\ call.pre.window_limit > 0
  /\ Len(call.records) = 2
  /\ \E k \in BatchKeys(call.records) :
       /\ Len(Occurrences(call.records, k)) = 2
       /\ Fingerprint(call.records[1]) # Fingerprint(call.records[2])
       /\ call.out = call.records
       /\ k \in DOMAIN PersistedDigests
       /\ PersistedDigests[k] = Fingerprint(call.records[2])

\* ------------------------------------------------------------------------
\* Properties of the dispatch in run() (under SpecRun)
\* ------------------------------------------------------------------------

\* the state key of the search run() is at
RunKey == StateKeyOf(run.searches[run.idx])

\* the digests persisted under that state key
RunDigests ==
  IF files[state_path(SiteId, RunKey)].kind = "json"
    THEN files[state_path(SiteId, RunKey)].doc.digests
  ELSE EmptyDict

\* run() is in the loop that sends to_post, or an exception of the formatter
\* or of an output has left that loop
Dispatching ==
  \/ run.pc = "dispatch"
  \/ run.pc = "crashed" /\ run.error \in {"ValueError", "SendError"}

\* the step is the selection of a search whose last dispatch was cut short
IsNextSelection ==
  run.pc = "select" /\ RunKey \in DOMAIN ledger

\* C22 (as claimed), the first half: from before the first send of a search
\* on, whether the sends succeed or an exception ends them, the persisted
\* digests hold the fingerprint of every record of the emitted list.
C22_EveryEmittedPersisted ==
  Dispatching =>
    \A i \in DOMAIN run.to_post :
      /\ DiffKey(run.to_post[i]) \in DOMAIN RunDigests
      /\ RunDigests[DiffKey(run.to_post[i])] = Fingerprint(run.to_post[i])

\* C22 (as claimed), the second half: the run after a dispatch that was cut
\* short emits no record identical to one of the list that was being
\* dispatched.
C22_NoneEmittedAgain ==
  IsNextSelection =>
    \A i \in DOMAIN ledger[RunKey] :
      ledger[RunKey][i] \in Range(run.records)
        => ledger[RunKey][i] \notin Range(run'.to_post)

C22_LastEmittedPersisted ==
  Dispatching =>
    \A i \in DOMAIN run.to_post :
      /\ DiffKey(run.to_post[i]) \in DOMAIN RunDigests
      /\ RunDigests[DiffKey(run.to_post[i])]
           = LastFingerprint(run.to_post, DiffKey(run.to_post[i]))

\* C22 (amended), the second half: the run after a dispatch that was cut
\* short emits no record of an id of the list that was being dispatched,
\* when every record the id has in the new batch carries the fingerprint of
\* the last record the list had for it.
C22_LastEmittedNotAgain ==
  IsNextSelection =>
    \A k \in BatchKeys(ledger[RunKey]) :
      (\A i \in DOMAIN run.records :
         DiffKey(run.records[i]) = k
           => Fingerprint(run.records[i]) = LastFingerprint(ledger[RunKey], k))
        => k \notin OutKeys(run'.to_post)

C23_SiteOptionsTakeEffect ==
  Dispatching =>
    /\ PerRunMaxOf(run.site_options) >= 1
         => Len(run.to_post) <= PerRunMaxOf(run.site_options)
    /\ ~Get(run.site_options, "detect_updates", TRUE)
         => run.to_post = FirstN(run.records, PerRunMaxOf(run.site_options))

\* ------------------------------------------------------------------------
\* Properties of scrape and open_search (under SpecSearch)
\* ------------------------------------------------------------------------

\* the call of scrape is over: it returned a list or an exception left it
ScrapeEnded == run.pc \in {"returned", "raised"}

\* open_search was called and is over: it returned a status or an exception
\* left it
OpenSearchOver ==
  \/ run.pc \in {"status", "pager", "finally"}
  \/ ScrapeEnded /\ run.ctx = "closed"

\* what C24 says of the clicks, of the status open_search returns and of
\* what scrape makes of it
SearchOutcomeOk ==
  /\ run.clicks <= run.opts.max_click_retries
  /\ run.status = "failed"
       => run.attempt \in {0, run.opts.max_click_retries + 1}
  /\ run.status \in {"results", "empty"}
       => /\ run.attempt \in 1..run.opts.max_click_retries
          /\ run.clicks \in 1..run.attempt
          /\ run.status = "results" <=> run.rows > 0
  /\ (run.pc = "returned" /\ run.status # "results") => run.out = <<>>
  /\ ScrapeEnded => run.ctx # "open"

\* C24 (as claimed): open_search clicks Search at most max_click_retries
\* times and always ends with "results", "empty" or "failed": "failed" when
\* the UI never became ready or every attempt failed, "results" or "empty"
\* at the first attempt whose search completed; scrape returns [] unless the
\* outcome is "results" and closes the browser context on every path.
C24_OpenSearchEndsWithStatus ==
  /\ SearchOutcomeOk
  /\ OpenSearchOver => run.status \in {"results", "empty", "failed"}

\* C24 for the calls of open_search that no exception leaves: they end with
\* one of the three outcomes, and the rest of C24 holds of every call.
C24_OpenSearchReturnsStatus ==
  /\ SearchOutcomeOk
  /\ (OpenSearchOver /\ run.error = "none")
       => run.status \in {"results", "empty", "failed"}

\* C24, the return at the first attempt whose search completes: a wait for
\* completion that does not raise ends open_search within the attempt.
C24_ReturnsAtFirstCompletion ==
  [][(run.pc = "complete" /\ run'.pc # "except")
       => /\ run'.pc = "status"
          /\ run'.status \in {"results", "empty"}
          /\ run'.attempt = run.attempt]_vars

\* C24, termination (under FairSpecSearch): every call of scrape ends.
C24_ScrapeEnds == <>ScrapeEnded

====
